---- MODULE Spec2Model ----
(***************************************************************************)
(* STYX membership oracle: finality engine, witness registry, partition    *)
(* detector, aggregator and the oracle facade that composes them.          *)
(*                                                                         *)
(* Numbers.  The Go code computes on float64 values in [0.0, 1.0].  Here   *)
(* every confidence, belief mass and trust score is an integer number of   *)
(* thousandths: 0.85 is 850, 1.0 is ConfidenceOne = 1000.  The variance    *)
(* that the finality engine compares with MaxDisagreement is kept as an    *)
(* exact fraction, so that the comparison is the one the code makes.       *)
(*                                                                         *)
(* Concurrency.  Every caller is a thread of Threads.  A thread invokes an *)
(* operation (an Invoke step fixes the arguments), the operation then runs *)
(* its critical section(s) (one step per section held under one lock), and *)
(* the thread keeps the returned value until its next invocation.          *)
(***************************************************************************)
EXTENDS Integers, Sequences, FiniteSets, TLC

\* ------------------------------------------------------------------ bounds
\* Longest report list handed to Detector.Analyze directly.
MaxAnalyzeReports == 3

\* Longest report list handed to Aggregator.Aggregate directly.
MaxAggregateReports == 3

\* Most RecordCorrect / RecordWrong calls in one behaviour when the locks are
\* examined.
MaxTrustChanges == 1

\* The largest generation of a node id: the generations of the model are
\* unsigned integers of 2 bits where the code has 64.
MaxGeneration == 3
\* The largest logical timestamp: the timestamps of the model are unsigned
\* integers of 8 bits where the code has 64.
MaxTimestamp == 255
\* Most records an observer holds about one target.
MaxObserverEvidence == 2

\* Most records in an evidence set.
MaxEvidence == 10
\* Most records in an evidence set when conflicting evidence is examined.
MaxConflictEvidence == 2
\* The half-life of the evidence sets made by WithHalfLife.
ShortHalfLife == 50

\* Most reports the oracle ingests in one behaviour (all targets together).
MaxReports == 2
\* Longest report list handed to DeclareDeath beyond the MinWitnesses needed.
MaxExtraReports == 0
\* Most RecordCorrect / RecordWrong / RecordReport calls in one behaviour of
\* the registry specification.
MaxRecordCalls == 8
\* Reports the oracle receives when its answers are examined.
MaxQueryReports == 3
\* The windowSize the jitter tracker and the entropy tracker are made with.
WindowSize == 2
\* Reports the oracle receives when queries about two targets run side by side.
MaxIsolationReports == 3
\* Most RecordCorrect / RecordWrong calls on the registry of an oracle that
\* receives reports and answers queries.
MaxOracleRecordCalls == 2

\* The concurrent callers.
Threads == {"t1", "t2"}

\* ------------------------------------------------------------- primitives
\* types.ConfidenceOne: the value 1.0, in thousandths.
ConfidenceOne == 1000
\* types.DominantMargin (0.1)
DominantMargin == 100

\* types.NodeID
NodeID(base, generation) == [Base |-> base, Generation |-> generation]
NewNodeID(base) == NodeID(base, 0)
WithGeneration(base, generation) == NodeID(base, generation)
\* types.NodeID.Rebirth: Generation + 1 on an unsigned integer.
Rebirth(n) == NodeID(n.Base, (n.Generation + 1) % (MaxGeneration + 1))
\* types.NodeID.IsRebirthOf
IsRebirthOf(n, other) == n.Base = other.Base /\ n.Generation > other.Generation
\* types.NodeID.Equal
Equal(n, other) == n.Base = other.Base /\ n.Generation = other.Generation

\* types.NewBelief: the triple when it sums to 1.0 and every mass is in
\* [0.0, 1.0], otherwise the error.
BeliefOf(alive, dead, unknown) == [alive |-> alive, dead |-> dead, unknown |-> unknown]
ErrInvalidBelief == [err |-> "invalid belief"]
\* types.BeliefSumEpsilon.  In the code 1e-9 absorbs the rounding of float64
\* sums; here it absorbs the rounding of thousandths (the three truncated
\* quotients of a weighted average lose less than 3 between them).
BeliefSumEpsilon == 2
Abs(x) == IF x < 0 THEN -x ELSE x
NewBelief(alive, dead, unknown) ==
    IF Abs(alive + dead + unknown - ConfidenceOne) > BeliefSumEpsilon THEN ErrInvalidBelief
    ELSE IF alive < 0 \/ alive > ConfidenceOne THEN ErrInvalidBelief
    ELSE IF dead < 0 \/ dead > ConfidenceOne THEN ErrInvalidBelief
    ELSE IF unknown < 0 \/ unknown > ConfidenceOne THEN ErrInvalidBelief
    ELSE BeliefOf(alive, dead, unknown)
\* UnknownBelief that returns the zero value of Belief.
UnknownBelief_Zero == BeliefOf(0, 0, 0)
\* UnknownBelief that is certain of life.
UnknownBelief_Alive == BeliefOf(ConfidenceOne, 0, 0)
UnknownBelief == BeliefOf(0, 0, ConfidenceOne)
CertainlyAlive == BeliefOf(ConfidenceOne, 0, 0)
CertainlyDead == BeliefOf(0, ConfidenceOne, 0)

\* types.CertaintyThreshold (0.95) and types.Belief.IsCertainDead
CertaintyThreshold == 950
IsCertainDead(b) == b.dead >= CertaintyThreshold

\* types.Belief.Dominant
Dominant(b) ==
    IF b.alive > b.dead + DominantMargin /\ b.alive > b.unknown + DominantMargin
    THEN "ALIVE"
    ELSE IF b.dead > b.alive + DominantMargin /\ b.dead > b.unknown + DominantMargin
    THEN "DEAD"
    ELSE "UNKNOWN"

\* witness.WitnessReport (its Trust field is never set by the code modelled)
WitnessReport(w, target, belief) == [Witness |-> w, Target |-> target, Belief |-> belief]

\* Sum of f[i] over the indices of a sequence.
RECURSIVE SumOver(_, _)
SumOver(f, n) == IF n = 0 THEN 0 ELSE f[n] + SumOver(f, n - 1)

\* ---------------------------------------------------------- finality engine
ErrAlreadyDead == "ErrAlreadyDead"
ErrInsufficientEvidence == "ErrInsufficientEvidence"
ErrSilenceOnly == "ErrSilenceOnly"
ErrResurrection == "ErrResurrection"
Nil == "nil"
\* A nil pointer to a struct (*DeathRecord, *SplitReality, *WitnessRecord).
NilRecord == [nil |-> TRUE]

\* finality.MinDeadConfidence (0.85), MinWitnesses, MaxDisagreement (0.2)
MinDeadConfidence == 850
MinWitnesses == 3
MaxDisagreement == 200

\* finality.calculateDisagreement: the variance of the reports' dead masses,
\* as the exact fraction num / (den * ConfidenceOne^2).  With avgDead =
\* sumDead / n each diff is (n * dead_i - sumDead) / n, so the sum of the
\* squared diffs divided by n is  SUM (n * dead_i - sumDead)^2 / n^3.
calculateDisagreement(reports) ==
    LET n == Len(reports)
        sumDead == SumOver([i \in 1..n |-> reports[i].Belief.dead], n)
        sq == [i \in 1..n |-> (n * reports[i].Belief.dead - sumDead)
                               * (n * reports[i].Belief.dead - sumDead)]
    IN  IF n < 2 THEN [num |-> 0, den |-> 1]
        ELSE [num |-> SumOver(sq, n), den |-> n * n * n]

\* disagreement > limit, for a fraction of calculateDisagreement and a limit
\* in thousandths.
Exceeds(disagreement, limit) ==
    disagreement.num > limit * disagreement.den * ConfidenceOne

\* finality.DeathRecord
DeathRecord(nodeID, aggregatedBelief, witnessReports) ==
    [NodeID |-> nodeID,
     FinalBelief |-> aggregatedBelief,
     Witnesses |-> [i \in 1..Len(witnessReports) |-> witnessReports[i].Witness],
     Reason |-> "overwhelming evidence from multiple witnesses"]

\* DeclareDeathCheck without the already-dead check.
DeclareDeathCheck_NoAlreadyDead(d, nodeID, aggregatedBelief, witnessReports, hasNonTimeoutEvidence) ==
    IF aggregatedBelief.dead < MinDeadConfidence
    THEN ErrInsufficientEvidence
    ELSE IF Len(witnessReports) < MinWitnesses
    THEN ErrInsufficientEvidence
    ELSE IF ~hasNonTimeoutEvidence
    THEN ErrSilenceOnly
    ELSE IF Exceeds(calculateDisagreement(witnessReports), MaxDisagreement)
    THEN ErrInsufficientEvidence
    ELSE Nil

\* DeclareDeathCheck without the disagreement check.
DeclareDeathCheck_NoDisagreement(d, nodeID, aggregatedBelief, witnessReports, hasNonTimeoutEvidence) ==
    IF nodeID \in DOMAIN d
    THEN ErrAlreadyDead
    ELSE IF aggregatedBelief.dead < MinDeadConfidence
    THEN ErrInsufficientEvidence
    ELSE IF Len(witnessReports) < MinWitnesses
    THEN ErrInsufficientEvidence
    ELSE IF ~hasNonTimeoutEvidence
    THEN ErrSilenceOnly
    ELSE Nil

\* DeclareDeathCheck with the silence check made after the disagreement check.
DeclareDeathCheck_SilenceLast(d, nodeID, aggregatedBelief, witnessReports, hasNonTimeoutEvidence) ==
    IF nodeID \in DOMAIN d
    THEN ErrAlreadyDead
    ELSE IF aggregatedBelief.dead < MinDeadConfidence
    THEN ErrInsufficientEvidence
    ELSE IF Len(witnessReports) < MinWitnesses
    THEN ErrInsufficientEvidence
    ELSE IF Exceeds(calculateDisagreement(witnessReports), MaxDisagreement)
    THEN ErrInsufficientEvidence
    ELSE IF ~hasNonTimeoutEvidence
    THEN ErrSilenceOnly
    ELSE Nil

\* Engine.DeclareDeath, the precondition checks: the error they return on
\* the dead map d, or Nil when all of them pass.
DeclareDeathCheck(d, nodeID, aggregatedBelief, witnessReports, hasNonTimeoutEvidence) ==
    IF nodeID \in DOMAIN d
    THEN ErrAlreadyDead
    ELSE IF aggregatedBelief.dead < MinDeadConfidence
    THEN ErrInsufficientEvidence
    ELSE IF Len(witnessReports) < MinWitnesses
    THEN ErrInsufficientEvidence
    ELSE IF ~hasNonTimeoutEvidence
    THEN ErrSilenceOnly
    ELSE IF Exceeds(calculateDisagreement(witnessReports), MaxDisagreement)
    THEN ErrInsufficientEvidence
    ELSE Nil

\* Engine.DeclareDeath, the declaration: e.dead[nodeID] = &DeathRecord{...}
DeclareDeathStore(d, nodeID, aggregatedBelief, witnessReports) ==
    [k \in DOMAIN d \cup {nodeID} |->
        IF k = nodeID THEN DeathRecord(nodeID, aggregatedBelief, witnessReports)
        ELSE d[k]]

\* DeclareDeathCommit that writes the record whatever the checks returned.
DeclareDeathCommit_Always(d, err, nodeID, aggregatedBelief, witnessReports) ==
    DeclareDeathStore(d, nodeID, aggregatedBelief, witnessReports)

\* Engine.DeclareDeath, after the checks: the map it leaves when they
\* returned err.
DeclareDeathCommit(d, err, nodeID, aggregatedBelief, witnessReports) ==
    IF err = Nil THEN DeclareDeathStore(d, nodeID, aggregatedBelief, witnessReports) ELSE d

\* Engine.IsDead, GetDeathRecord (a copy, or nil), AttemptResurrection, AllDead
\* IsDead of an engine that keys its records by the base of the node id,
\* whatever the generation.
IsDead_ByBase(d, id) == \E k \in DOMAIN d : k.Base = id.Base
\* Engine.IsDead: the lookup e.dead[id] by the whole node id.
IsDead(d, id) == id \in DOMAIN d
GetDeathRecord(d, id) == IF id \in DOMAIN d THEN d[id] ELSE NilRecord
AttemptResurrection(d, id) == IF id \in DOMAIN d THEN ErrResurrection ELSE Nil
AllDead(d) == DOMAIN d

\* --------------------------------------------------------- witness registry
\* witness.MaxTrust (1.0), MinTrust (0.1), DefaultTrust (0.8), DecayRate
\* (0.1), RecoveryRate (0.05)
MaxTrust == 1000
MinTrust == 100
DefaultTrust == 800
DecayRate == 100
RecoveryRate == 50

\* The zero value of types.Belief, LastReport of a record never reported on.
ZeroBelief == BeliefOf(0, 0, 0)

\* witness.WitnessRecord as Register and getOrCreate create it.
NewWitnessRecord(id) ==
    [ID |-> id, Trust |-> DefaultTrust, CorrectReports |-> 0, WrongReports |-> 0,
     LastReport |-> ZeroBelief]

\* The map w with key id set to record rec.
Put(w, id, rec) == [k \in DOMAIN w \cup {id} |-> IF k = id THEN rec ELSE w[k]]

\* Register that stores a fresh record whether or not the id has one.
Register_Reset(w, id) == Put(w, id, NewWitnessRecord(id))
\* Registry.Register: adds a record only when the id has none.
Register(w, id) == IF id \notin DOMAIN w THEN Put(w, id, NewWitnessRecord(id)) ELSE w

\* Registry.Register, after the lookup: the insertion when the id had no record.
RegisterInsert(w, id, exists) == IF exists THEN w ELSE Put(w, id, NewWitnessRecord(id))

\* Registry.getOrCreate: the map with a record for id in it.
getOrCreate(w, id) == IF id \in DOMAIN w THEN w ELSE Put(w, id, NewWitnessRecord(id))

\* Registry.GetTrust
GetTrust(w, id) == IF id \in DOMAIN w THEN w[id].Trust ELSE DefaultTrust

\* Registry.GetRecord (a copy, or nil)
GetRecord(w, id) == IF id \in DOMAIN w THEN w[id] ELSE NilRecord

\* RecordCorrect without the clamp at MaxTrust.
RecordCorrect_NoCeiling(w, id) ==
    LET c == getOrCreate(w, id)
    IN  Put(c, id, [c[id] EXCEPT !.CorrectReports = @ + 1, !.Trust = @ + RecoveryRate])

\* Registry.RecordCorrect
RecordCorrect(w, id) ==
    LET c == getOrCreate(w, id)
        trust == c[id].Trust + RecoveryRate
    IN  Put(c, id, [c[id] EXCEPT !.CorrectReports = @ + 1,
                                 !.Trust = IF trust > MaxTrust THEN MaxTrust ELSE trust])

\* RecordWrong without the clamp at MinTrust.
RecordWrong_NoFloor(w, id) ==
    LET c == getOrCreate(w, id)
    IN  Put(c, id, [c[id] EXCEPT !.WrongReports = @ + 1, !.Trust = @ - DecayRate])

\* Registry.RecordWrong
RecordWrong(w, id) ==
    LET c == getOrCreate(w, id)
        trust == c[id].Trust - DecayRate
    IN  Put(c, id, [c[id] EXCEPT !.WrongReports = @ + 1,
                                 !.Trust = IF trust < MinTrust THEN MinTrust ELSE trust])

\* Registry.RecordReport
RecordReport(w, id, belief) ==
    LET c == getOrCreate(w, id)
    IN  Put(c, id, [c[id] EXCEPT !.LastReport = belief])

\* -------------------------------------------------------- partition detector
NoPartition == "NO_PARTITION"
SuspectedPartition == "SUSPECTED_PARTITION"
ConfirmedPartition == "CONFIRMED_PARTITION"

\* Detector.disagreementThreshold (0.4), and the 0.5 share of unknown votes
\* A threshold that confirms a partition only above a minority of one half.
disagreementThreshold_Half == ConfidenceOne \div 2
disagreementThreshold == 400
UnknownVoteShare == 500

\* Number of reports of a list whose dominant state is s.
Votes(reps, s) == Cardinality({i \in 1..Len(reps) : Dominant(reps[i].Belief) = s})

\* min that returns the larger of the two.
Min_AsMax(a, b) == IF a > b THEN a ELSE b
\* partition.min
Min(a, b) == IF a < b THEN a ELSE b

\* The reports of a list with dominant state s, in order.
RECURSIVE Side(_, _)
Side(reps, s) ==
    IF reps = <<>> THEN <<>>
    ELSE IF Dominant(Head(reps).Belief) = s
         THEN <<Head(reps)>> \o Side(Tail(reps), s)
         ELSE Side(Tail(reps), s)

\* partition.WitnessGroup of one side: its witnesses in order, and the belief
\* the last of them reported (each report overwrites Beliefs[target]).
WitnessGroup(reps, s, target) ==
    LET side == Side(reps, s)
    IN  [Witnesses |-> [i \in 1..Len(side) |-> side[i].Witness],
         Beliefs |-> IF side = <<>> THEN <<>>
                     ELSE [k \in {target} |-> side[Len(side)].Belief]]

\* Detector.Analyze: the state and split it returns; the disagreement of a
\* split is the fraction num / den.
Analyze(reps, target) ==
    LET aliveVotes == Votes(reps, "ALIVE")
        deadVotes == Votes(reps, "DEAD")
        unknownVotes == Votes(reps, "UNKNOWN")
        total == Len(reps)
        least == Min(aliveVotes, deadVotes)
    IN  IF total < 2
        THEN [state |-> NoPartition, split |-> NilRecord]
        ELSE IF aliveVotes > 0 /\ deadVotes > 0
        THEN IF least * ConfidenceOne > disagreementThreshold * total
             THEN [state |-> ConfirmedPartition,
                   split |-> [Disagreement |-> [num |-> least, den |-> total],
                              Ambiguous |-> <<target>>,
                              Groups |-> <<WitnessGroup(reps, "ALIVE", target),
                                           WitnessGroup(reps, "DEAD", target)>>]]
             ELSE [state |-> SuspectedPartition, split |-> NilRecord]
        ELSE IF unknownVotes * ConfidenceOne > UnknownVoteShare * total
        THEN [state |-> SuspectedPartition, split |-> NilRecord]
        ELSE [state |-> NoPartition, split |-> NilRecord]

\* ------------------------------------------------------------------ aggregator
\* A correlation limit that no similarity exceeds.
CorrelationLimit_Never == ConfidenceOne

\* The thresholds of Aggregate: correlation above 0.9 scales by 0.7, a
\* disagreement above 0.3 widens, and unknown is kept at 0.05 or more.
CorrelationLimit == 900
\* A correlation penalty that halves the alive and dead mass.
CorrelationFactor_Half == ConfidenceOne \div 2
CorrelationFactor == 700
DisagreementLimit == 300
\* An aggregator that lets unknown fall to zero.
UnknownFloor_None == 0 * ConfidenceOne
UnknownFloor == 50

\* math.Sqrt on thousandths: the root of x / 10^6, in thousandths, truncated.
Sqrt(x) == CHOOSE r \in 0..1415 : r * r <= x /\ x < (r + 1) * (r + 1)

\* Aggregator.calculateDisagreement
aggregateDisagreement(reps, avgAlive, avgDead) ==
    LET n == Len(reps)
        sq == [i \in 1..n |->
                 (reps[i].Belief.alive - avgAlive) * (reps[i].Belief.alive - avgAlive)
                 + (reps[i].Belief.dead - avgDead) * (reps[i].Belief.dead - avgDead)]
    IN  IF n < 2 THEN 0 ELSE Min(Sqrt(SumOver(sq, n) \div n), ConfidenceOne)

\* Aggregator.detectCorrelation
detectCorrelation(reps) ==
    LET n == Len(reps)
        first == reps[1].Belief
        diff == [i \in 1..n |-> Abs(first.alive - reps[i].Belief.alive)
                                + Abs(first.dead - reps[i].Belief.dead)]
        avgDiff2 == (2 * SumOver(diff, n)) \div (n - 1)
    IN  IF n < 2 THEN 0 ELSE ConfidenceOne - Min(avgDiff2, ConfidenceOne)

\* Aggregator.Aggregate with the registry w, for two or more reports: the
\* weighted average after the correlation, disagreement and floor steps (the
\* values handed to NewBelief), the disagreement and the total weight.
aggregateMasses(reps, w) ==
    LET n == Len(reps)
        trust == [i \in 1..n |-> GetTrust(w, reps[i].Witness)]
        totalWeight == SumOver(trust, n)
        aliveSum == SumOver([i \in 1..n |-> reps[i].Belief.alive * trust[i]], n)
        deadSum == SumOver([i \in 1..n |-> reps[i].Belief.dead * trust[i]], n)
        unknownSum == SumOver([i \in 1..n |-> reps[i].Belief.unknown * trust[i]], n)
        avgAlive0 == aliveSum \div totalWeight
        avgDead0 == deadSum \div totalWeight
        avgUnknown0 == unknownSum \div totalWeight
        disagreement == aggregateDisagreement(reps, avgAlive0, avgDead0)
        correlated == detectCorrelation(reps) > CorrelationLimit
        avgAlive1 == IF correlated THEN (avgAlive0 * CorrelationFactor) \div ConfidenceOne
                     ELSE avgAlive0
        avgDead1 == IF correlated THEN (avgDead0 * CorrelationFactor) \div ConfidenceOne
                    ELSE avgDead0
        avgUnknown1 == IF correlated THEN ConfidenceOne - avgAlive1 - avgDead1
                       ELSE avgUnknown0
        widened == disagreement > DisagreementLimit
        keep == ConfidenceOne - disagreement \div 2
        avgAlive2 == IF widened THEN (avgAlive1 * keep) \div ConfidenceOne ELSE avgAlive1
        avgDead2 == IF widened THEN (avgDead1 * keep) \div ConfidenceOne ELSE avgDead1
        avgUnknown2 == IF widened THEN ConfidenceOne - avgAlive2 - avgDead2
                       ELSE avgUnknown1
        floored == avgUnknown2 < UnknownFloor
        excess == UnknownFloor - (ConfidenceOne - avgAlive2 - avgDead2)
        avgAlive == IF floored THEN avgAlive2 - excess \div 2 ELSE avgAlive2
        avgDead == IF floored THEN avgDead2 - excess \div 2 ELSE avgDead2
        avgUnknown == IF floored THEN UnknownFloor ELSE avgUnknown2
    IN  [alive |-> avgAlive, dead |-> avgDead, unknown |-> avgUnknown,
         disagreement |-> disagreement, totalWeight |-> totalWeight]

\* Aggregator.Aggregate with the registry w: the belief, the disagreement and
\* the witness count of the result.
Aggregate(reps, w) ==
    LET n == Len(reps)
        Result(m) ==
            LET belief == NewBelief(m.alive, m.dead, m.unknown)
            IN  IF m.totalWeight < 1
                THEN [Belief |-> UnknownBelief, Disagreement |-> 0, WitnessCount |-> n]
                ELSE [Belief |-> IF belief = ErrInvalidBelief THEN UnknownBelief ELSE belief,
                      Disagreement |-> m.disagreement,
                      WitnessCount |-> n]
    IN  IF n = 0
        THEN [Belief |-> UnknownBelief, Disagreement |-> 0, WitnessCount |-> 0]
        ELSE IF n = 1
        THEN [Belief |-> reps[1].Belief, Disagreement |-> 0, WitnessCount |-> 1]
        ELSE CHOOSE result \in {Result(m) : m \in {aggregateMasses(reps, w)}} : TRUE

\* AggregateResult that discounts a single report by the trust of its witness.
AggregateResult_Discounted(reps, w) ==
    LET agg == Aggregate(reps, w)
        trust == GetTrust(w, reps[1].Witness)
        alive == (reps[1].Belief.alive * trust) \div ConfidenceOne
        dead == (reps[1].Belief.dead * trust) \div ConfidenceOne
    IN  [Belief |-> IF Len(reps) = 1
                    THEN BeliefOf(alive, dead, ConfidenceOne - alive - dead)
                    ELSE agg.Belief,
         Disagreement |-> agg.Disagreement,
         WitnessCount |-> agg.WitnessCount,
         Reports |-> IF Len(reps) = 0 THEN <<>> ELSE reps]

\* Aggregator.Aggregate, the whole AggregateResult: Reports is the slice that
\* was passed in (Reports: reports), and is left nil for an empty list.
AggregateResult(reps, w) ==
    LET agg == Aggregate(reps, w)
    IN  [Belief |-> agg.Belief,
         Disagreement |-> agg.Disagreement,
         WitnessCount |-> agg.WitnessCount,
         Reports |-> IF Len(reps) = 0 THEN <<>> ELSE reps]

\* ------------------------------------------------------------- oracle facade
\* oracle.RequiredConfidence, DefaultRequirement and StrictRequirement
RequiredConfidence(minAlive, minDead, maxUnknown) ==
    [MinAlive |-> minAlive, MinDead |-> minDead, MaxUnknown |-> maxUnknown]
\* DefaultRequirement with the thresholds of the strict preset.
DefaultRequirement_Strict == RequiredConfidence(700, 700, 300)
DefaultRequirement == RequiredConfidence(0, 0, ConfidenceOne)
StrictRequirement == RequiredConfidence(700, 700, 300)

\* oracle.QueryResult with its zero values.
QueryResult(target) ==
    [Target |-> target, Belief |-> ZeroBelief, Refused |-> FALSE, RefusalReason |-> "",
     Dead |-> FALSE, WitnessCount |-> 0, Disagreement |-> [num |-> 0, den |-> 1],
     PartitionState |-> NoPartition, Evidence |-> <<>>]

\* QueryDead that leaves the belief at its zero value.
QueryDead_NoBelief(target) ==
    [QueryResult(target) EXCEPT !.Dead = TRUE,
                                !.Evidence = <<"finality: node declared dead">>]

\* Oracle.QueryWithRequirement, the finality check: the result for a node
\* that is declared dead.
QueryDead(target) ==
    [QueryResult(target) EXCEPT !.Dead = TRUE,
                                !.Belief = BeliefOf(0, ConfidenceOne, 0),
                                !.Evidence = <<"finality: node declared dead">>]

\* QueryReports without the check of the unknown mass.
QueryReports_NoUncertainty(target, req, reps, an, w) ==
    LET base == [QueryResult(target) EXCEPT !.WitnessCount = Len(reps)]
        agg == Aggregate(reps, w)
        got == [base EXCEPT !.PartitionState = an.state,
                            !.Belief = agg.Belief,
                            !.Disagreement = [num |-> agg.Disagreement, den |-> ConfidenceOne]]
    IN  IF Len(reps) = 0
        THEN [base EXCEPT !.Belief = UnknownBelief,
                          !.Evidence = <<"no witness reports available">>]
        ELSE IF an.state = ConfirmedPartition
        THEN [base EXCEPT !.PartitionState = an.state,
                          !.Refused = TRUE,
                          !.RefusalReason = "network partition detected - witnesses disagree",
                          !.Belief = UnknownBelief,
                          !.Disagreement = IF an.split # NilRecord THEN an.split.Disagreement ELSE @,
                          !.Evidence = <<"partition: witnesses split into groups">>]
        ELSE IF /\ agg.Belief.alive > 0 /\ agg.Belief.alive < req.MinAlive
                /\ agg.Belief.dead > 0 /\ agg.Belief.dead < req.MinDead
        THEN [got EXCEPT !.Refused = TRUE,
                         !.RefusalReason = "insufficient confidence to meet requirements",
                         !.Evidence = <<"confidence below threshold">>]
        ELSE [got EXCEPT !.Evidence =
                 IF agg.Disagreement > 100
                 THEN <<"aggregated witness reports", "some witness disagreement detected">>
                 ELSE <<"aggregated witness reports">>]

\* QueryReports that calls a node dead when the aggregate is dominantly dead.
QueryReports_DeadOnDominant(target, req, reps, an, w) ==
    LET base == [QueryResult(target) EXCEPT !.WitnessCount = Len(reps)]
        agg == Aggregate(reps, w)
        got == [base EXCEPT !.PartitionState = an.state,
                            !.Dead = Dominant(agg.Belief) = "DEAD",
                            !.Belief = agg.Belief,
                            !.Disagreement = [num |-> agg.Disagreement, den |-> ConfidenceOne]]
    IN  IF Len(reps) = 0
        THEN [base EXCEPT !.Belief = UnknownBelief,
                          !.Evidence = <<"no witness reports available">>]
        ELSE IF an.state = ConfirmedPartition
        THEN [base EXCEPT !.PartitionState = an.state,
                          !.Refused = TRUE,
                          !.RefusalReason = "network partition detected - witnesses disagree",
                          !.Belief = UnknownBelief,
                          !.Disagreement = IF an.split # NilRecord THEN an.split.Disagreement ELSE @,
                          !.Evidence = <<"partition: witnesses split into groups">>]
        ELSE IF /\ agg.Belief.alive > 0 /\ agg.Belief.alive < req.MinAlive
                /\ agg.Belief.dead > 0 /\ agg.Belief.dead < req.MinDead
        THEN [got EXCEPT !.Refused = TRUE,
                         !.RefusalReason = "insufficient confidence to meet requirements",
                         !.Evidence = <<"confidence below threshold">>]
        ELSE IF agg.Belief.unknown > req.MaxUnknown
        THEN [got EXCEPT !.Refused = TRUE,
                         !.RefusalReason = "uncertainty too high",
                         !.Evidence = <<"unknown exceeds threshold">>]
        ELSE [got EXCEPT !.Evidence =
                 IF agg.Disagreement > 100
                 THEN <<"aggregated witness reports", "some witness disagreement detected">>
                 ELSE <<"aggregated witness reports">>]

\* Oracle.QueryWithRequirement after the finality check: reps is the report
\* list of the target, an the outcome of Detector.Analyze on it, w the registry.
\* The aggregation is computed once (aggResult := o.aggregator.Aggregate(reports)).
QueryReports(target, req, reps, an, w) ==
    LET base == [QueryResult(target) EXCEPT !.WitnessCount = Len(reps)]
        Answer(agg) ==
            LET got == [base EXCEPT !.PartitionState = an.state,
                                    !.Belief = agg.Belief,
                                    !.Disagreement = [num |-> agg.Disagreement, den |-> ConfidenceOne]]
            IN  IF Len(reps) = 0
                THEN [base EXCEPT !.Belief = UnknownBelief,
                                  !.Evidence = <<"no witness reports available">>]
                ELSE IF an.state = ConfirmedPartition
                THEN [base EXCEPT !.PartitionState = an.state,
                                  !.Refused = TRUE,
                                  !.RefusalReason = "network partition detected - witnesses disagree",
                                  !.Belief = UnknownBelief,
                                  !.Disagreement = IF an.split # NilRecord THEN an.split.Disagreement ELSE @,
                                  !.Evidence = <<"partition: witnesses split into groups">>]
                ELSE IF /\ agg.Belief.alive > 0 /\ agg.Belief.alive < req.MinAlive
                        /\ agg.Belief.dead > 0 /\ agg.Belief.dead < req.MinDead
                THEN [got EXCEPT !.Refused = TRUE,
                                 !.RefusalReason = "insufficient confidence to meet requirements",
                                 !.Evidence = <<"confidence below threshold">>]
                ELSE IF agg.Belief.unknown > req.MaxUnknown
                THEN [got EXCEPT !.Refused = TRUE,
                                 !.RefusalReason = "uncertainty too high",
                                 !.Evidence = <<"unknown exceeds threshold">>]
                ELSE [got EXCEPT !.Evidence =
                         IF agg.Disagreement > 100
                         THEN <<"aggregated witness reports", "some witness disagreement detected">>
                         ELSE <<"aggregated witness reports">>]
    IN  CHOOSE answer \in {Answer(agg) : agg \in {Aggregate(reps, w)}} : TRUE

\* ===================================================================== state
VARIABLES
    dead,        \* Engine.dead: the death records, keyed by node id
    witnesses,   \* Registry.witnesses: the witness records, keyed by witness id
    reports,     \* Oracle.reports: the report list of every target
    state,       \* Detector.state
    lastSplit,   \* Detector.lastSplit
    samples,     \* JitterTracker.samples: the window of jitter ratios
    latencies,   \* ResponseEntropy.latencies: the window of response latencies
    calls        \* per thread: the call it is in, or the value its last call returned

vars == <<dead, witnesses, reports, state, lastSplit, samples, latencies, calls>>

\* The node ids of the model: a target, its rebirth, and three witnesses.
Target == NewNodeID(99)
Targets == {Target, Rebirth(Target)}
Witness(i) == NewNodeID(i)

EmptyMap == [k \in {} |-> Nil]

\* finality.NewEngine, witness.NewRegistry, partition.NewDetector, oracle.New
Init ==
    /\ dead = EmptyMap
    /\ witnesses = EmptyMap
    /\ reports = [t \in Targets |-> <<>>]
    /\ state = NoPartition
    /\ lastSplit = NilRecord
    /\ samples = <<>>
    /\ latencies = <<>>
    /\ calls = [t \in Threads |-> [pc |-> "idle"]]

\* ------------------------------------------------------------------- threads
Idle == [pc |-> "idle"]
Done(op, id, res) == [pc |-> "done", op |-> op, id |-> id, res |-> res]
\* What a call of a function without results leaves.
Void == "void"
In(t, pc, op) == calls[t].pc = pc /\ calls[t].op = op

\* A thread between calls invokes one of the calls of C.
Invoke(t, C) ==
    /\ calls[t].pc \in {"idle", "done"}
    /\ \E c \in C : calls' = [calls EXCEPT ![t] = c]
    /\ UNCHANGED <<dead, witnesses, reports, state, lastSplit, samples, latencies>>

\* e.mu of the engine is held for writing by a thread inside DeclareDeath.
HoldsEngine(t) == calls[t].pc \in {"locked", "checked"} /\ calls[t].op = "DeclareDeath"
\* EngineFree of an engine whose DeclareDeath takes no lock.
EngineFree_NoLock(t) == TRUE
\* sync.RWMutex: e.mu can be taken by t when no other thread holds it.  (The
\* engine's readers take and release it within one step.)
EngineFree(t) == \A u \in Threads \ {t} : ~HoldsEngine(u)

\* r.mu of the registry is held for writing by a thread inside Register.
HoldsRegistry(t) == calls[t].pc \in {"locked", "checked"} /\ calls[t].op = "Register"
\* RegistryFree of a registry whose Register takes no lock.
RegistryFree_NoLock(t) == TRUE
\* r.mu can be taken by t when no other thread holds it.
RegistryFree(t) == \A u \in Threads \ {t} : ~HoldsRegistry(u)

\* o.mu of the oracle is held for reading by a thread inside a query.
ReadsOracle(t) == calls[t].pc = "querying"
\* OracleFreeToWrite of an oracle whose ReceiveReport does not wait for readers.
OracleFreeToWrite_NoLock(t) == TRUE
\* o.mu can be taken for writing by t when no other thread reads under it.
OracleFreeToWrite(t) == \A u \in Threads \ {t} : ~ReadsOracle(u)

\* ------------------------------------------------------------ finality engine
\* DeclareDeath: e.mu.Lock()
DeclareDeathLock(t) ==
    /\ In(t, "call", "DeclareDeath")
    /\ EngineFree(t)
    /\ calls' = [calls EXCEPT ![t].pc = "locked"]
    /\ UNCHANGED <<dead, witnesses, reports, state, lastSplit, samples, latencies>>

\* DeclareDeath: the precondition checks, under the lock
DeclareDeathChecks(t) ==
    /\ In(t, "locked", "DeclareDeath")
    /\ calls' = [calls EXCEPT ![t] =
          [pc |-> "checked", op |-> "DeclareDeath", nodeID |-> @.nodeID,
           aggregatedBelief |-> @.aggregatedBelief, witnessReports |-> @.witnessReports,
           hasNonTimeoutEvidence |-> @.hasNonTimeoutEvidence,
           err |-> DeclareDeathCheck(dead, @.nodeID, @.aggregatedBelief,
                                     @.witnessReports, @.hasNonTimeoutEvidence)]]
    /\ UNCHANGED <<dead, witnesses, reports, state, lastSplit, samples, latencies>>

\* DeclareDeath: the declaration when the checks passed, the deferred unlock
\* and the return
DeclareDeathReturn(t) ==
    /\ In(t, "checked", "DeclareDeath")
    /\ dead' = DeclareDeathCommit(dead, calls[t].err, calls[t].nodeID,
                                  calls[t].aggregatedBelief, calls[t].witnessReports)
    /\ calls' = [calls EXCEPT ![t] = Done("DeclareDeath", @.nodeID, @.err)]
    /\ UNCHANGED <<witnesses, reports, state, lastSplit, samples, latencies>>

\* The engine's readers: IsDead, GetDeathRecord, AttemptResurrection, AllDead,
\* each one read under e.mu.RLock()
EngineRead(t) ==
    /\ calls[t].pc = "call"
    /\ calls[t].op \in {"IsDead", "GetDeathRecord", "AttemptResurrection", "AllDead"}
    /\ EngineFree(t)
    /\ calls' = [calls EXCEPT ![t] =
          Done(@.op, @.id,
               CASE @.op = "IsDead" -> IsDead(dead, @.id)
                 [] @.op = "GetDeathRecord" -> GetDeathRecord(dead, @.id)
                 [] @.op = "AttemptResurrection" -> AttemptResurrection(dead, @.id)
                 [] @.op = "AllDead" -> AllDead(dead))]
    /\ UNCHANGED <<dead, witnesses, reports, state, lastSplit, samples, latencies>>

\* ------------------------------------------------------------- oracle facade
\* Detector.Analyze, its writes: the state always, the split when confirmed.
AnalyzeState(an) == an.state
\* AnalyzeLastSplit of a detector that stores the split of every analysis,
\* nil included.
AnalyzeLastSplit_Latest(an, last) == an.split
\* d.lastSplit after an analysis: assigned on the confirmed path alone.
AnalyzeLastSplit(an, last) == IF an.state = ConfirmedPartition THEN an.split ELSE last

\* Oracle.RegisterWitness
RegisterWitness(t) ==
    /\ In(t, "call", "RegisterWitness")
    /\ RegistryFree(t)
    /\ witnesses' = Register(witnesses, calls[t].id)
    /\ calls' = [calls EXCEPT ![t] = Done("RegisterWitness", @.id, Void)]
    /\ UNCHANGED <<dead, reports, state, lastSplit, samples, latencies>>

\* ReceiveReport that keeps only the newest report of a target.
ReceiveReport_Replace(t) ==
    /\ In(t, "call", "ReceiveReport")
    /\ OracleFreeToWrite(t)
    /\ RegistryFree(t)
    /\ witnesses' = Register(witnesses, calls[t].witnessID)
    /\ reports' = [reports EXCEPT ![calls[t].target] =
                      <<WitnessReport(calls[t].witnessID, calls[t].target, calls[t].belief)>>]
    /\ calls' = [calls EXCEPT ![t] = Done("ReceiveReport", @.target, Void)]
    /\ UNCHANGED <<dead, state, lastSplit, samples, latencies>>

\* Oracle.ReceiveReport, under o.mu.Lock(): registers the witness and appends
\* the report to the target's list.
ReceiveReport(t) ==
    /\ In(t, "call", "ReceiveReport")
    /\ OracleFreeToWrite(t)
    /\ RegistryFree(t)
    /\ witnesses' = Register(witnesses, calls[t].witnessID)
    /\ reports' = [reports EXCEPT ![calls[t].target] =
                      Append(@, WitnessReport(calls[t].witnessID, calls[t].target,
                                              calls[t].belief))]
    /\ calls' = [calls EXCEPT ![t] = Done("ReceiveReport", @.target, Void)]
    /\ UNCHANGED <<dead, state, lastSplit, samples, latencies>>

\* Oracle.QueryWithRequirement: o.mu.RLock() and the finality check, which
\* returns at once for a dead node.
QueryFinality(t) ==
    /\ In(t, "call", "QueryWithRequirement")
    /\ EngineFree(t)
    /\ calls' = [calls EXCEPT ![t] =
          IF IsDead(dead, @.target)
          THEN Done("QueryWithRequirement", @.target, QueryDead(@.target))
          ELSE [@ EXCEPT !.pc = "querying"]]
    /\ UNCHANGED <<dead, witnesses, reports, state, lastSplit, samples, latencies>>

\* Oracle.QueryWithRequirement, the rest: the report list, the partition
\* analysis (which writes the detector), the aggregation, the requirement.
QueryAnswer(t) ==
    /\ In(t, "querying", "QueryWithRequirement")
    /\ RegistryFree(t)
    /\ LET target == calls[t].target
           reps == reports[target]
           an == Analyze(reps, target)
       IN  /\ state' = IF Len(reps) = 0 THEN state ELSE AnalyzeState(an)
           /\ lastSplit' = IF Len(reps) = 0 THEN lastSplit
                           ELSE AnalyzeLastSplit(an, lastSplit)
           /\ calls' = [calls EXCEPT ![t] =
                 Done("QueryWithRequirement", target,
                      QueryReports(target, calls[t].req, reps, an, witnesses))]
    /\ UNCHANGED <<dead, witnesses, reports, samples, latencies>>

\* ------------------------------------------------------------------ the calls
\* The evidence a caller hands to DeclareDeath about node id: n reports, from
\* one witness or from n different ones, all certain of death or alternating
\* between certain death and certain life.
Evidence(id, n, oneWitness, split) ==
    [i \in 1..n |->
        WitnessReport(IF oneWitness THEN Witness(1) ELSE Witness(i), id,
                      IF split /\ i % 2 = 0 THEN CertainlyAlive ELSE CertainlyDead)]

DeclareDeathCall(id, belief, reps, flag) ==
    [pc |-> "call", op |-> "DeclareDeath", nodeID |-> id, aggregatedBelief |-> belief,
     witnessReports |-> reps, hasNonTimeoutEvidence |-> flag]
EngineReadCall(op, id) == [pc |-> "call", op |-> op, id |-> id]
RegisterWitnessCall(id) == [pc |-> "call", op |-> "RegisterWitness", id |-> id]
ReceiveReportCall(w, target, belief) ==
    [pc |-> "call", op |-> "ReceiveReport", witnessID |-> w, target |-> target,
     belief |-> belief]
QueryCall(target, req) ==
    [pc |-> "call", op |-> "QueryWithRequirement", target |-> target, req |-> req]

\* Beliefs a caller passes as the aggregate: dead mass just below the
\* threshold, and on it.
BelowThreshold == BeliefOf(101, 849, 50)
OnThreshold == BeliefOf(100, 850, 50)
\* Beliefs the witnesses report.
StrongAlive == BeliefOf(900, 50, 50)
StrongDead == BeliefOf(20, 950, 30)

\* Number of reports the oracle holds.
ReportCount == Len(reports[Target]) + Len(reports[Rebirth(Target)])

\* The calls of the oracle with its finality engine.  One thread feeds the
\* oracle (reports, registrations, death declarations), the other asks it.
\* The i-th report the oracle receives comes from witness i.
FeederCalls ==
    {DeclareDeathCall(id, OnThreshold, Evidence(id, MinWitnesses, FALSE, FALSE), flag) :
        id \in Targets, flag \in BOOLEAN}
    \cup {RegisterWitnessCall(Witness(1))}
    \cup {ReceiveReportCall(Witness(ReportCount + 1), target, b) :
            target \in IF ReportCount < MaxReports THEN Targets ELSE {},
            b \in {StrongAlive, StrongDead}}
ClientCalls ==
    {EngineReadCall(op, id) :
        op \in {"IsDead", "GetDeathRecord", "AttemptResurrection"}, id \in Targets}
    \cup {EngineReadCall("AllDead", NilRecord)}
    \cup {QueryCall(target, req) : target \in Targets,
                                   req \in {DefaultRequirement, StrictRequirement}}
OracleCalls(t) == IF t = "t1" THEN FeederCalls ELSE ClientCalls

Next ==
    \/ \E t \in Threads : Invoke(t, OracleCalls(t))
    \/ \E t \in Threads : DeclareDeathLock(t)
    \/ \E t \in Threads : DeclareDeathChecks(t)
    \/ \E t \in Threads : DeclareDeathReturn(t)
    \/ \E t \in Threads : EngineRead(t)
    \/ \E t \in Threads : RegisterWitness(t)
    \/ \E t \in Threads : ReceiveReport(t)
    \/ \E t \in Threads : QueryFinality(t)
    \/ \E t \in Threads : QueryAnswer(t)

Spec == Init /\ [][Next]_vars

\* ------------------------------------------------- the finality engine alone
\* The report lists handed to DeclareDeath: one too short, and for every
\* length from MinWitnesses on, one from distinct witnesses that agree, one
\* from a single witness, and one from distinct witnesses that are split.
EvidenceLists(id) ==
    {Evidence(id, MinWitnesses - 1, FALSE, FALSE)}
    \cup UNION {{Evidence(id, n, FALSE, FALSE), Evidence(id, n, TRUE, FALSE),
                 Evidence(id, n, FALSE, TRUE)} :
                   n \in MinWitnesses..(MinWitnesses + MaxExtraReports)}

\* The calls on the engine: declarations on the threshold with every report
\* list, declarations below it with reports that would otherwise do, and reads.
FinalityCalls ==
    UNION {{DeclareDeathCall(id, OnThreshold, reps, flag) :
                reps \in EvidenceLists(id), flag \in BOOLEAN} : id \in Targets}
    \cup {DeclareDeathCall(id, BelowThreshold, Evidence(id, MinWitnesses, FALSE, FALSE), flag) :
             id \in Targets, flag \in BOOLEAN}
    \cup {EngineReadCall(op, id) : op \in {"IsDead", "AttemptResurrection"}, id \in Targets}

NextFinality ==
    \/ \E t \in Threads : Invoke(t, FinalityCalls)
    \/ \E t \in Threads : DeclareDeathLock(t)
    \/ \E t \in Threads : DeclareDeathChecks(t)
    \/ \E t \in Threads : DeclareDeathReturn(t)
    \/ \E t \in Threads : EngineRead(t)

SpecFinality == Init /\ [][NextFinality]_vars

\* ------------------------------------------------------- the registry alone
\* Register: r.mu.Lock()
RegisterLock(t) ==
    /\ In(t, "call", "Register")
    /\ RegistryFree(t)
    /\ calls' = [calls EXCEPT ![t].pc = "locked"]
    /\ UNCHANGED <<dead, witnesses, reports, state, lastSplit, samples, latencies>>

\* Register: the lookup  _, exists := r.witnesses[id]
RegisterLookup(t) ==
    /\ In(t, "locked", "Register")
    /\ calls' = [calls EXCEPT ![t] =
          [pc |-> "checked", op |-> "Register", id |-> @.id,
           exists |-> @.id \in DOMAIN witnesses]]
    /\ UNCHANGED <<dead, witnesses, reports, state, lastSplit, samples, latencies>>

\* Register: the insertion when the id had no record, and the deferred unlock
RegisterReturn(t) ==
    /\ In(t, "checked", "Register")
    /\ witnesses' = RegisterInsert(witnesses, calls[t].id, calls[t].exists)
    /\ calls' = [calls EXCEPT ![t] = Done("Register", @.id, Void)]
    /\ UNCHANGED <<dead, reports, state, lastSplit, samples, latencies>>

\* Number of RecordCorrect and RecordWrong calls made so far.
RecordCalls ==
    LET n == [id \in DOMAIN witnesses |->
                 witnesses[id].CorrectReports + witnesses[id].WrongReports]
    IN  SumOver([i \in 1..2 |-> IF Witness(i) \in DOMAIN witnesses THEN n[Witness(i)] ELSE 0], 2)

\* RecordCorrect, RecordWrong and RecordReport, each under r.mu.Lock()
RecordCorrectCall(t) ==
    /\ In(t, "call", "RecordCorrect")
    /\ RegistryFree(t)
    /\ witnesses' = RecordCorrect(witnesses, calls[t].id)
    /\ calls' = [calls EXCEPT ![t] = Done("RecordCorrect", @.id, Void)]
    /\ UNCHANGED <<dead, reports, state, lastSplit, samples, latencies>>

RecordWrongCall(t) ==
    /\ In(t, "call", "RecordWrong")
    /\ RegistryFree(t)
    /\ witnesses' = RecordWrong(witnesses, calls[t].id)
    /\ calls' = [calls EXCEPT ![t] = Done("RecordWrong", @.id, Void)]
    /\ UNCHANGED <<dead, reports, state, lastSplit, samples, latencies>>

RecordReportCall(t) ==
    /\ In(t, "call", "RecordReport")
    /\ RegistryFree(t)
    /\ witnesses' = RecordReport(witnesses, calls[t].id, calls[t].belief)
    /\ calls' = [calls EXCEPT ![t] = Done("RecordReport", @.id, Void)]
    /\ UNCHANGED <<dead, reports, state, lastSplit, samples, latencies>>

\* GetTrust, one read under r.mu.RLock()
GetTrustCall(t) ==
    /\ In(t, "call", "GetTrust")
    /\ RegistryFree(t)
    /\ calls' = [calls EXCEPT ![t] = Done("GetTrust", @.id, GetTrust(witnesses, @.id))]
    /\ UNCHANGED <<dead, witnesses, reports, state, lastSplit, samples, latencies>>

RegistryCall(op, id) == [pc |-> "call", op |-> op, id |-> id]

\* One thread registers witnesses, records the outcomes of witness 1 and
\* its reports; the other registers witnesses and reads trust scores.
RegistryCalls(t) ==
    {RegistryCall("Register", Witness(i)) : i \in 1..2}
    \cup IF t = "t1"
         THEN {RegistryCall(op, Witness(1)) :
                  op \in IF RecordCalls < MaxRecordCalls
                         THEN {"RecordCorrect", "RecordWrong"} ELSE {}}
              \cup {[pc |-> "call", op |-> "RecordReport", id |-> Witness(1),
                     belief |-> StrongDead]}
         ELSE {RegistryCall("GetTrust", Witness(i)) : i \in 1..2}

NextRegistry ==
    \/ \E t \in Threads : Invoke(t, RegistryCalls(t))
    \/ \E t \in Threads : RegisterLock(t)
    \/ \E t \in Threads : RegisterLookup(t)
    \/ \E t \in Threads : RegisterReturn(t)
    \/ \E t \in Threads : RecordCorrectCall(t)
    \/ \E t \in Threads : RecordWrongCall(t)
    \/ \E t \in Threads : RecordReportCall(t)
    \/ \E t \in Threads : GetTrustCall(t)

SpecRegistry == Init /\ [][NextRegistry]_vars

\* ------------------------------------------- the oracle's answers to queries
\* Beliefs the witnesses report to the oracle whose answers are examined:
\* beside StrongAlive and StrongDead, one close to StrongAlive, one weakly
\* alive and one alive with a quarter of dead mass.
NearAlive == BeliefOf(840, 50, 110)
WeakAlive == BeliefOf(550, 100, 350)
MidAlive == BeliefOf(600, 250, 150)
QueryBeliefs == {StrongAlive, NearAlive, WeakAlive, MidAlive, StrongDead}

\* The requirement of TestOracleRespectsConfidenceRequirements.
AliveRequirement == RequiredConfidence(700, 0, 200)
Requirements == {DefaultRequirement, StrictRequirement, AliveRequirement}

\* The calls on the oracle whose answers are examined.  One thread reports
\* about the target with any of the beliefs (the i-th report comes from
\* witness i) and declares the target dead; the other queries the target
\* with every requirement.
QueryFeederCalls ==
    {ReceiveReportCall(Witness(ReportCount + 1), Target, b) :
        b \in IF ReportCount < MaxQueryReports THEN QueryBeliefs ELSE {}}
    \cup {DeclareDeathCall(Target, OnThreshold, Evidence(Target, MinWitnesses, FALSE, FALSE), TRUE)}
QueryClientCalls == {QueryCall(Target, req) : req \in Requirements}
QueryCalls(t) == IF t = "t1" THEN QueryFeederCalls ELSE QueryClientCalls

NextQuery ==
    \/ \E t \in Threads : Invoke(t, QueryCalls(t))
    \/ \E t \in Threads : ReceiveReport(t)
    \/ \E t \in Threads : QueryFinality(t)
    \/ \E t \in Threads : QueryAnswer(t)
    \/ \E t \in Threads : DeclareDeathLock(t)
    \/ \E t \in Threads : DeclareDeathChecks(t)
    \/ \E t \in Threads : DeclareDeathReturn(t)

SpecQuery == Init /\ [][NextQuery]_vars

\* ------------------------------------------------ the trust of the witnesses
\* Both threads record correct and wrong reports of two witnesses.
TrustCalls ==
    {RegistryCall(op, Witness(i)) :
        op \in IF RecordCalls < MaxRecordCalls THEN {"RecordCorrect", "RecordWrong"} ELSE {},
        i \in 1..2}

NextTrust ==
    \/ \E t \in Threads : Invoke(t, TrustCalls)
    \/ \E t \in Threads : RecordCorrectCall(t)
    \/ \E t \in Threads : RecordWrongCall(t)

SpecTrust == Init /\ [][NextTrust]_vars

\* ------------------------------------------------------ the report lists
\* ReceiveReport calls that were invoked and have not appended yet.
ReportsInFlight == Cardinality({t \in Threads : In(t, "call", "ReceiveReport")})

\* The witness on whose behalf a thread reports.
WitnessOf(t) == IF t = "t1" THEN Witness(1) ELSE Witness(2)

\* Both threads report about both targets, register witnesses and query.
ReportCalls(t) ==
    {ReceiveReportCall(WitnessOf(t), target, b) :
        target \in IF ReportCount + ReportsInFlight < MaxReports THEN Targets ELSE {},
        b \in {StrongAlive, StrongDead}}
    \cup {RegisterWitnessCall(WitnessOf(t))}
    \cup {QueryCall(Target, DefaultRequirement)}

NextReports ==
    \/ \E t \in Threads : Invoke(t, ReportCalls(t))
    \/ \E t \in Threads : RegisterWitness(t)
    \/ \E t \in Threads : ReceiveReport(t)
    \/ \E t \in Threads : QueryFinality(t)
    \/ \E t \in Threads : QueryAnswer(t)

SpecReports == Init /\ [][NextReports]_vars

\* ------------------------------------------------- the partition detector alone
\* Detector.Analyze called directly, under d.mu.Lock(): it writes the state,
\* writes the split when it confirms one, and returns both.
DetectorAnalyze(t) ==
    /\ In(t, "call", "Analyze")
    /\ LET an == Analyze(calls[t].reports, calls[t].target)
       IN  /\ state' = AnalyzeState(an)
           /\ lastSplit' = AnalyzeLastSplit(an, lastSplit)
           /\ calls' = [calls EXCEPT ![t] = Done("Analyze", @.target, an)]
    /\ UNCHANGED <<dead, witnesses, reports, samples, latencies>>

\* Detector.GetState, GetLastSplit and ShouldRefuseAnswer, each one read
\* under d.mu.RLock()
DetectorRead(t) ==
    /\ calls[t].pc = "call"
    /\ calls[t].op \in {"GetState", "GetLastSplit", "ShouldRefuseAnswer"}
    /\ calls' = [calls EXCEPT ![t] =
          Done(@.op, Target,
               CASE @.op = "GetState" -> [state |-> state]
                 [] @.op = "GetLastSplit" -> [split |-> lastSplit]
                 [] @.op = "ShouldRefuseAnswer" ->
                        [refuse |-> state = ConfirmedPartition])]
    /\ UNCHANGED <<dead, witnesses, reports, state, lastSplit, samples, latencies>>

AnalyzeCall(reps, target) ==
    [pc |-> "call", op |-> "Analyze", reports |-> reps, target |-> target]
DetectorReadCall(op) == [pc |-> "call", op |-> op]

\* The beliefs of the reports handed to the detector: for life, for death,
\* and with no opinion.
AnalyzeBeliefs == {StrongAlive, StrongDead, UnknownBelief}

\* The report lists about the target of up to MaxAnalyzeReports reports, the
\* i-th one from witness i.
AnalyzeLists ==
    UNION {{[i \in 1..n |-> WitnessReport(Witness(i), Target, b[i])] :
               b \in [1..n -> AnalyzeBeliefs]} : n \in 0..MaxAnalyzeReports}

\* One thread analyzes report lists, the other reads the detector.
DetectorCalls(t) ==
    IF t = "t1" THEN {AnalyzeCall(reps, Target) : reps \in AnalyzeLists}
    ELSE {DetectorReadCall(op) : op \in {"GetState", "GetLastSplit", "ShouldRefuseAnswer"}}

NextDetector ==
    \/ \E t \in Threads : Invoke(t, DetectorCalls(t))
    \/ \E t \in Threads : DetectorAnalyze(t)
    \/ \E t \in Threads : DetectorRead(t)

SpecDetector == Init /\ [][NextDetector]_vars

\* ---------------------------------------------- the death records in callers' hands
\* A node id that is no witness of any report.
Stranger == NewNodeID(7)

\* The record a GetDeathRecord call returned to thread t is a struct copy of
\* the stored one (copy := *rec): its Witnesses slice has the backing array
\* of the stored record's slice.
SharesWitnesses(t, id) ==
    /\ calls[t].pc = "done"
    /\ calls[t].op = "GetDeathRecord"
    /\ calls[t].id = id
    /\ calls[t].res # NilRecord

\* A caller writes to the record GetDeathRecord returned: to its belief or
\* its reason, which are fields of the copy, or to an element of its witness
\* list, which is an element of the array the stored record and every other
\* returned copy use too.
MutateRecord(t) ==
    /\ calls[t].pc = "done"
    /\ calls[t].op = "GetDeathRecord"
    /\ calls[t].res # NilRecord
    /\ \/ /\ calls' = [calls EXCEPT ![t].res.FinalBelief = CertainlyAlive]
          /\ UNCHANGED dead
       \/ /\ calls' = [calls EXCEPT ![t].res.Reason = ""]
          /\ UNCHANGED dead
       \/ \E i \in 1..Len(calls[t].res.Witnesses) :
            /\ dead' = [dead EXCEPT ![calls[t].id].Witnesses[i] = Stranger]
            /\ calls' = [u \in Threads |->
                  IF SharesWitnesses(u, calls[t].id)
                  THEN [calls[u] EXCEPT !.res.Witnesses[i] = Stranger]
                  ELSE calls[u]]
    /\ UNCHANGED <<witnesses, reports, state, lastSplit, samples, latencies>>

\* A caller writes to an element of the report slice it passed to a
\* DeclareDeath call that has returned.  The stored record holds the
\* witness ids in a slice of its own (make, then a copy by value), so the
\* write stays with the caller.
MutateReports(t) ==
    /\ calls[t].pc = "done"
    /\ calls[t].op = "DeclareDeath"
    /\ \E i \in 1..MinWitnesses :
          calls' = [calls EXCEPT ![t] =
             [pc |-> "done", op |-> "DeclareDeath", id |-> @.id, res |-> @.res,
              overwritten |-> i]]
    /\ UNCHANGED <<dead, witnesses, reports, state, lastSplit, samples, latencies>>

\* The declaration of a death that passes every check.
SoundDeclaration(id) ==
    DeclareDeathCall(id, OnThreshold, Evidence(id, MinWitnesses, FALSE, FALSE), TRUE)

\* Both threads declare deaths and fetch death records.
RecordHolderCalls ==
    {SoundDeclaration(id) : id \in Targets}
    \cup {EngineReadCall("GetDeathRecord", id) : id \in Targets}

NextRecords ==
    \/ \E t \in Threads : Invoke(t, RecordHolderCalls)
    \/ \E t \in Threads : DeclareDeathLock(t)
    \/ \E t \in Threads : DeclareDeathChecks(t)
    \/ \E t \in Threads : DeclareDeathReturn(t)
    \/ \E t \in Threads : EngineRead(t)
    \/ \E t \in Threads : MutateRecord(t)
    \/ \E t \in Threads : MutateReports(t)

SpecRecords == Init /\ [][NextRecords]_vars

\* ------------------------------------------------------- the aggregator alone
\* The registry after k RecordWrong, or k RecordCorrect, calls about id.
RECURSIVE AfterWrongs(_, _, _)
AfterWrongs(w, id, k) == IF k = 0 THEN w ELSE RecordWrong(AfterWrongs(w, id, k - 1), id)
RECURSIVE AfterCorrects(_, _, _)
AfterCorrects(w, id, k) == IF k = 0 THEN w ELSE RecordCorrect(AfterCorrects(w, id, k - 1), id)

\* What the registry has seen of a witness: nothing yet, wrong reports until
\* its trust is MinTrust, or correct reports until its trust is MaxTrust.
Histories == {"new", "distrusted", "trusted"}
WithHistory(w, id, h) ==
    CASE h = "new" -> Register(w, id)
      [] h = "distrusted" -> AfterWrongs(w, id, (DefaultTrust - MinTrust) \div DecayRate)
      [] h = "trusted" -> AfterCorrects(w, id, (MaxTrust - DefaultTrust) \div RecoveryRate)

\* The registries the aggregator works with: the first two witnesses with
\* every history; other witnesses are not registered.
Registries ==
    {WithHistory(WithHistory(EmptyMap, Witness(1), h1), Witness(2), h2) :
        h1 \in Histories, h2 \in Histories}

\* NewAggregator(registry) over a registry with a history.
InitAggregate ==
    /\ dead = EmptyMap
    /\ witnesses \in Registries
    /\ reports = [t \in Targets |-> <<>>]
    /\ state = NoPartition
    /\ lastSplit = NilRecord
    /\ samples = <<>>
    /\ latencies = <<>>
    /\ calls = [t \in Threads |-> [pc |-> "idle"]]

\* Aggregator.Aggregate called directly.  The caller keeps the slice it
\* passed (reports); the result's Reports is that slice.
AggregateDirect(t) ==
    /\ In(t, "call", "Aggregate")
    /\ RegistryFree(t)
    /\ calls' = [calls EXCEPT ![t] =
          [pc |-> "done", op |-> "Aggregate", id |-> Target,
           res |-> AggregateResult(@.reports, witnesses), reports |-> @.reports]]
    /\ UNCHANGED <<dead, witnesses, reports, state, lastSplit, samples, latencies>>

\* A caller overwrites the belief of the first element of the Reports of a
\* result, or of the slice it passed to Aggregate: both are the same slice,
\* so the element changes in both.
OverwriteReport(t) ==
    /\ In(t, "done", "Aggregate")
    /\ Len(calls[t].reports) > 0
    /\ calls[t].reports[1].Belief # UnknownBelief
    /\ calls' = [calls EXCEPT ![t].reports[1].Belief = UnknownBelief,
                              ![t].res.Reports[1].Belief = UnknownBelief]
    /\ UNCHANGED <<dead, witnesses, reports, state, lastSplit, samples, latencies>>

AggregateCall(reps) == [pc |-> "call", op |-> "Aggregate", reports |-> reps]

\* The beliefs of the reports handed to the aggregator.
AggregateBeliefs == {CertainlyAlive, CertainlyDead, StrongAlive}

\* The report lists about the target of up to MaxAggregateReports reports,
\* the i-th one from witness i.
AggregateLists ==
    UNION {{[i \in 1..n |-> WitnessReport(Witness(i), Target, b[i])] :
               b \in [1..n -> AggregateBeliefs]} : n \in 0..MaxAggregateReports}

\* One thread aggregates report lists, and hands the belief of a result back
\* as a single report; the other reads the trust the aggregator works with.
AggregatorCalls(t) ==
    IF t = "t1"
    THEN {AggregateCall(reps) : reps \in AggregateLists}
         \cup (IF In(t, "done", "Aggregate")
               THEN {AggregateCall(<<WitnessReport(Witness(1), Target, calls[t].res.Belief)>>)}
               ELSE {})
    ELSE {RegistryCall("GetTrust", Witness(1))}

NextAggregate ==
    \/ \E t \in Threads : Invoke(t, AggregatorCalls(t))
    \/ \E t \in Threads : AggregateDirect(t)
    \/ \E t \in Threads : OverwriteReport(t)
    \/ \E t \in Threads : GetTrustCall(t)

SpecAggregate == InitAggregate /\ [][NextAggregate]_vars

\* ------------------------------------------------------------------ the locks
\* The locks a thread holds between two steps of the call c it is in: o.mu
\* from the Lock of ReceiveReport or the RLock of a query to their deferred
\* unlock, e.mu inside DeclareDeath, r.mu inside Register.  (d.mu and the
\* read locks of the engine and the registry are taken and released within
\* one step.)
Holds(c) ==
    IF c.pc \in {"idle", "done", "call"} THEN {}
    ELSE CASE c.op = "ReceiveReport" -> IF c.pc = "locked" THEN {"oracle"} ELSE {}
           [] c.op = "QueryWithRequirement" -> {"oracle"}
           [] c.op = "DeclareDeath" -> {"finality"}
           [] c.op = "Register" -> {"registry"}
           [] OTHER -> {}

\* The locks the next step of the call c takes, one after the other.
Acquires(c) ==
    IF c.pc \in {"idle", "done"} THEN {}
    ELSE CASE c.op = "ReceiveReport" ->
                 (CASE c.pc = "call" -> {}
                    [] c.pc = "waiting" -> {"oracle"}
                    [] c.pc = "locked" -> {"registry"})
           [] c.op = "QueryWithRequirement" ->
                 (CASE c.pc = "call" -> {"oracle"}
                    [] c.pc = "reading" -> {"finality"}
                    [] c.pc = "querying" -> {"detector", "registry"})
           [] c.op \in {"DeclareDeath", "IsDead", "AttemptResurrection"} ->
                 IF c.pc = "call" THEN {"finality"} ELSE {}
           [] c.op \in {"Register", "RecordCorrect", "RecordWrong"} ->
                 IF c.pc = "call" THEN {"registry"} ELSE {}
           [] c.op = "Analyze" -> {"detector"}

\* No thread but t holds the lock.
Free(t, lock) == \A u \in Threads \ {t} : lock \notin Holds(calls[u])

\* WriterPending of an oracle whose ReceiveReport returns without unlocking
\* o.mu.
WriterPending_NoUnlock(t) ==
    \E u \in Threads \ {t} :
        calls[u].pc \in {"waiting", "locked", "done"} /\ calls[u].op = "ReceiveReport"

\* RWMutex.Lock announces the writer before it waits for the readers to
\* leave, and RLock waits while a writer is announced: a thread other than t
\* is inside o.mu.Lock() or holds o.mu for writing.
WriterPending(t) ==
    \E u \in Threads \ {t} :
        calls[u].pc \in {"waiting", "locked"} /\ calls[u].op = "ReceiveReport"

\* QueryWithRequirement: o.mu.RLock()
QueryRLock(t) ==
    /\ In(t, "call", "QueryWithRequirement")
    /\ ~WriterPending(t)
    /\ calls' = [calls EXCEPT ![t].pc = "reading"]
    /\ UNCHANGED <<dead, witnesses, reports, state, lastSplit, samples, latencies>>

\* QueryWithRequirement: o.finality.IsDead(target) under the read lock of the
\* oracle, and the return for a dead node
QueryIsDead(t) ==
    /\ In(t, "reading", "QueryWithRequirement")
    /\ Free(t, "finality")
    /\ calls' = [calls EXCEPT ![t] =
          IF IsDead(dead, @.target)
          THEN Done("QueryWithRequirement", @.target, QueryDead(@.target))
          ELSE [@ EXCEPT !.pc = "querying"]]
    /\ UNCHANGED <<dead, witnesses, reports, state, lastSplit, samples, latencies>>

\* ReceiveReport: o.mu.Lock() is entered
ReceiveReportAnnounce(t) ==
    /\ In(t, "call", "ReceiveReport")
    /\ calls' = [calls EXCEPT ![t].pc = "waiting"]
    /\ UNCHANGED <<dead, witnesses, reports, state, lastSplit, samples, latencies>>

\* ReceiveReport: o.mu.Lock() returns
ReceiveReportLock(t) ==
    /\ In(t, "waiting", "ReceiveReport")
    /\ Free(t, "oracle")
    /\ calls' = [calls EXCEPT ![t].pc = "locked"]
    /\ UNCHANGED <<dead, witnesses, reports, state, lastSplit, samples, latencies>>

\* ReceiveReport: o.registry.Register under the write lock of the oracle,
\* the append and the deferred unlock
ReceiveReportRegister(t) ==
    /\ In(t, "locked", "ReceiveReport")
    /\ Free(t, "registry")
    /\ witnesses' = Register(witnesses, calls[t].witnessID)
    /\ reports' = [reports EXCEPT ![calls[t].target] =
                      Append(@, WitnessReport(calls[t].witnessID, calls[t].target,
                                              calls[t].belief))]
    /\ calls' = [calls EXCEPT ![t] = Done("ReceiveReport", @.target, Void)]
    /\ UNCHANGED <<dead, state, lastSplit, samples, latencies>>

\* ReceiveReport calls that have not appended yet.
ReportsUnderWay ==
    Cardinality({t \in Threads : calls[t].pc \in {"call", "waiting", "locked"}
                                 /\ calls[t].op = "ReceiveReport"})

\* One thread feeds the oracle: it reports, declares the death of the
\* target and records a wrong report.  The other asks: it queries, reads the
\* engine, analyzes reports and records a correct report.  Both register a
\* witness.
LockCalls(t) ==
    IF t = "t1"
    THEN {ReceiveReportCall(Witness(1), Target, b) :
             b \in IF ReportCount + ReportsUnderWay < MaxReports
                   THEN {StrongDead} ELSE {}}
         \cup {SoundDeclaration(Target), RegistryCall("Register", Witness(1))}
         \cup {RegistryCall("RecordWrong", Witness(1)) :
                  k \in IF RecordCalls < MaxTrustChanges THEN {1} ELSE {}}
    ELSE {QueryCall(Target, DefaultRequirement)}
         \cup {EngineReadCall(op, Target) : op \in {"IsDead", "AttemptResurrection"}}
         \cup {AnalyzeCall(Evidence(Target, 2, FALSE, FALSE), Target)}
         \cup {RegistryCall("Register", Witness(1))}
         \cup {RegistryCall("RecordCorrect", Witness(1)) :
                  k \in IF RecordCalls < MaxTrustChanges THEN {1} ELSE {}}

\* A step of a call of thread t.
Proceed(t) ==
    \/ QueryRLock(t)
    \/ QueryIsDead(t)
    \/ QueryAnswer(t)
    \/ ReceiveReportAnnounce(t)
    \/ ReceiveReportLock(t)
    \/ ReceiveReportRegister(t)
    \/ DeclareDeathLock(t)
    \/ DeclareDeathChecks(t)
    \/ DeclareDeathReturn(t)
    \/ EngineRead(t)
    \/ RegisterLock(t)
    \/ RegisterLookup(t)
    \/ RegisterReturn(t)
    \/ RecordCorrectCall(t)
    \/ RecordWrongCall(t)
    \/ DetectorAnalyze(t)

NextLocks ==
    \/ \E t \in Threads : Invoke(t, LockCalls(t))
    \/ \E t \in Threads : Proceed(t)

\* The scheduler lets every thread run, and a mutex that is released again
\* and again is handed to a thread that waits for it.
SpecLocks == Init /\ [][NextLocks]_vars /\ \A t \in Threads : SF_vars(Proceed(t))

\* ------------------------------------------------------- the evidence set
\* evidence.EvidenceKind
KindDirectResponse == "DirectResponse"
KindTimeout == "Timeout"
KindWitnessReport == "WitnessReport"
KindCausalEvent == "CausalEvent"
KindSchedulingJitter == "SchedulingJitter"
KindNetworkInstability == "NetworkInstability"

\* evidence.DefaultHalfLife
DefaultHalfLife == 100

\* evidence.Evidence: the fields ComputeBelief reads.  Weight is in
\* thousandths.
EvidenceRecord(kind, ts, weight) == [Kind |-> kind, Timestamp |-> ts, Weight |-> weight]

\* evidence.NewDirectResponse
NewDirectResponse(ts, latencyMS) ==
    EvidenceRecord(KindDirectResponse, ts,
                   IF latencyMS >= 100 /\ latencyMS < 1000 THEN 800
                   ELSE IF latencyMS >= 1000 THEN 600
                   ELSE 1000)

\* evidence.NewTimeout: ratio is waitedMS / expectedMS.
NewTimeout(ts, expectedMS, waitedMS) ==
    EvidenceRecord(KindTimeout, ts,
                   IF waitedMS > 10 * expectedMS THEN 300
                   ELSE IF waitedMS > 3 * expectedMS THEN 200
                   ELSE 100)

\* evidence.NewCausalEvent
NewCausalEvent(ts) == EvidenceRecord(KindCausalEvent, ts, 1000)

\* evidence.NewSchedulingJitter
NewSchedulingJitter(ts, delayMS) ==
    EvidenceRecord(KindSchedulingJitter, ts, IF delayMS > 1000 THEN 400 ELSE 200)

\* evidence.Evidence.SuggestsAlive
SuggestsAlive(e) == e.Kind = KindDirectResponse \/ e.Kind = KindCausalEvent
\* SuggestsDead that also counts abnormal scheduling.
SuggestsDead_Jitter(e) == e.Kind = KindTimeout \/ e.Kind = KindSchedulingJitter
\* evidence.Evidence.SuggestsDead
SuggestsDead(e) == e.Kind = KindTimeout

\* time.LogicalTimestamp.AgeSince
AgeSince(ts, now) == IF now < ts THEN 0 ELSE now - ts

\* evidence.pow, on thousandths: the loop over the whole part of exp, then
\* the linear approximation for the fractional part.
RECURSIVE powLoop(_, _, _)
powLoop(result, base, exp) ==
    IF exp >= ConfidenceOne
    THEN powLoop((result * base) \div ConfidenceOne, base, exp - ConfidenceOne)
    ELSE IF exp > 0
    THEN (result * (ConfidenceOne - (exp * (ConfidenceOne - base)) \div ConfidenceOne))
             \div ConfidenceOne
    ELSE result
pow(base, exp) == IF exp = 0 THEN ConfidenceOne ELSE powLoop(ConfidenceOne, base, exp)

\* evidence.Evidence.EffectiveWeight
EffectiveWeight(e, now, halfLife) ==
    LET age == AgeSince(e.Timestamp, now)
        decayFactor == pow(ConfidenceOne \div 2, (age * ConfidenceOne) \div halfLife)
    IN  (e.Weight * decayFactor) \div ConfidenceOne

\* A cap that lets the certainty from evidence reach 1.0.
maxCertaintyCap_None == ConfidenceOne
\* The certainty that evidence alone never exceeds (0.90), and the unknown
\* mass it always leaves (0.05).
maxCertaintyCap == 900
minUnknown == 50

\* evidence.EvidenceSet.ComputeBelief.  A total weight below 1e-10 is a total
\* weight of no thousandth.
ComputeBelief(evidence, halfLife, now) ==
    LET n == Len(evidence)
        w == [i \in 1..n |-> EffectiveWeight(evidence[i], now, halfLife)]
        totalWeight == SumOver(w, n)
        aliveWeight == SumOver([i \in 1..n |-> IF SuggestsAlive(evidence[i]) THEN w[i] ELSE 0], n)
        deadWeight ==
            SumOver([i \in 1..n |-> IF ~SuggestsAlive(evidence[i]) /\ SuggestsDead(evidence[i])
                                    THEN w[i] ELSE 0], n)
        maxCertainty == Min((totalWeight * ConfidenceOne) \div (totalWeight + ConfidenceOne),
                            maxCertaintyCap)
        aliveRatio == (aliveWeight * ConfidenceOne) \div totalWeight
        deadRatio == (deadWeight * ConfidenceOne) \div totalWeight
        lower == Min(aliveWeight, deadWeight)
        upper == IF aliveWeight > deadWeight THEN aliveWeight ELSE deadWeight
        balance == (lower * ConfidenceOne) \div upper
        conflictFactor == IF aliveWeight > 0 /\ deadWeight > 0
                          THEN ConfidenceOne - balance \div 2
                          ELSE ConfidenceOne
        aliveConf0 == (((aliveRatio * maxCertainty) \div ConfidenceOne) * conflictFactor)
                         \div ConfidenceOne
        deadConf0 == (((deadRatio * maxCertainty) \div ConfidenceOne) * conflictFactor)
                         \div ConfidenceOne
        unknownConf0 == ConfidenceOne - aliveConf0 - deadConf0
        floored == unknownConf0 < minUnknown
        excess == minUnknown - unknownConf0
        aliveConf == IF floored THEN aliveConf0 - excess \div 2 ELSE aliveConf0
        deadConf == IF floored THEN deadConf0 - excess \div 2 ELSE deadConf0
        unknownConf == IF floored THEN minUnknown ELSE unknownConf0
        belief == NewBelief(aliveConf, deadConf, unknownConf)
    IN  IF n = 0 THEN UnknownBelief
        ELSE IF totalWeight < 1 THEN UnknownBelief
        ELSE IF belief = ErrInvalidBelief THEN UnknownBelief
        ELSE belief

\* evidence.NewEvidenceSet and evidence.WithHalfLife
EvidenceSet(halfLife) == [evidence |-> <<>>, halfLife |-> halfLife]
NewEvidenceSet == EvidenceSet(DefaultHalfLife)
WithHalfLife(halfLife) == EvidenceSet(halfLife)

\* The evidence set a thread works on: the one its last call left, or a new
\* one.
HeldSets(t) ==
    IF calls[t].pc = "done"
    THEN {[evidence |-> calls[t].evidence, halfLife |-> calls[t].halfLife]}
    ELSE {NewEvidenceSet, WithHalfLife(ShortHalfLife)}

\* Add that puts the new record in front.
Add_Front(evidence, e) == <<e>> \o evidence
\* evidence.EvidenceSet.Add, on the slice of the set: es.evidence =
\* append(es.evidence, e).
Add(evidence, e) == Append(evidence, e)

\* evidence.EvidenceSet.Add called on a set a thread holds.
EvidenceAdd(t) ==
    /\ In(t, "call", "Add")
    /\ calls' = [calls EXCEPT ![t] =
          [pc |-> "done", op |-> "Add", id |-> Target, res |-> Void,
           evidence |-> Add(@.evidence, @.e), halfLife |-> @.halfLife]]
    /\ UNCHANGED <<dead, witnesses, reports, state, lastSplit, samples, latencies>>

\* evidence.EvidenceSet.ComputeBelief called at the logical time now.
EvidenceComputeBelief(t) ==
    /\ In(t, "call", "ComputeBelief")
    /\ calls' = [calls EXCEPT ![t] =
          [pc |-> "done", op |-> "ComputeBelief", id |-> Target,
           res |-> ComputeBelief(@.evidence, @.halfLife, @.now),
           evidence |-> @.evidence, halfLife |-> @.halfLife, now |-> @.now]]
    /\ UNCHANGED <<dead, witnesses, reports, state, lastSplit, samples, latencies>>

AddCall(es, e) ==
    [pc |-> "call", op |-> "Add", evidence |-> es.evidence, halfLife |-> es.halfLife, e |-> e]
ComputeBeliefCall(es, now) ==
    [pc |-> "call", op |-> "ComputeBelief", evidence |-> es.evidence,
     halfLife |-> es.halfLife, now |-> now]

\* The records added to the sets: one of every kind, made by the
\* constructors where the package has one and as a literal otherwise, recent
\* (timestamp 100) or old (timestamp 0), with weights from 0 to 1.0.
EvidenceChoices ==
    << NewDirectResponse(100, 50),
       NewCausalEvent(0),
       NewTimeout(100, 100, 1500),
       EvidenceRecord(KindTimeout, 0, ConfidenceOne),
       NewSchedulingJitter(100, 2000),
       EvidenceRecord(KindWitnessReport, 0, ConfidenceOne \div 2),
       EvidenceRecord(KindNetworkInstability, 100, 0) >>
ChoiceOf(e) == CHOOSE j \in 1..Len(EvidenceChoices) : EvidenceChoices[j] = e

\* The logical times at which the belief is computed: before every record,
\* and one and a half half-lives after the recent ones.
Nows == {0, 250}

\* One thread fills an evidence set, one record of EvidenceChoices after the
\* other in the order of that list, up to MaxEvidence records, and computes
\* its belief; evidence sets are not shared between threads.
EvidenceCalls(t) ==
    IF t = "t1"
    THEN UNION {
           {AddCall(es, EvidenceChoices[j]) :
               j \in IF Len(es.evidence) >= MaxEvidence THEN {}
                     ELSE IF es.evidence = <<>> THEN 1..Len(EvidenceChoices)
                     ELSE ChoiceOf(es.evidence[Len(es.evidence)])..Len(EvidenceChoices)}
           \cup {ComputeBeliefCall(es, now) : now \in Nows} : es \in HeldSets(t)}
    ELSE {}

NextEvidence ==
    \/ \E t \in Threads : Invoke(t, EvidenceCalls(t))
    \/ \E t \in Threads : EvidenceAdd(t)
    \/ \E t \in Threads : EvidenceComputeBelief(t)

SpecEvidence == Init /\ [][NextEvidence]_vars

\* --------------------------------------------- silence after direct responses
\* The direct responses (fast, slow and very slow: weights 1.0, 0.8, 0.6) and
\* the timeouts (waited 1, 5 and 15 times the expected time: weights 0.1,
\* 0.2, 0.3), recent or old.
DirectResponses == {NewDirectResponse(ts, ms) : ts \in {0, 100}, ms \in {50, 500, 1000}}
Timeouts == {NewTimeout(ts, 100, ms) : ts \in {0, 100}, ms \in {100, 500, 1500}}

\* One thread adds direct responses to an evidence set, then timeouts, and
\* computes the belief of the set after every addition.
ConflictCalls(t) ==
    IF t = "t1"
    THEN UNION {
           {AddCall(es, e) :
               e \in IF Len(es.evidence) >= MaxConflictEvidence THEN {}
                     ELSE IF \E i \in 1..Len(es.evidence) : es.evidence[i].Kind = KindTimeout
                     THEN Timeouts
                     ELSE IF es.evidence = <<>> THEN DirectResponses
                     ELSE DirectResponses \cup Timeouts}
           \cup {ComputeBeliefCall(es, now) : now \in Nows} : es \in HeldSets(t)}
    ELSE {}

NextConflict ==
    \/ \E t \in Threads : Invoke(t, ConflictCalls(t))
    \/ \E t \in Threads : EvidenceAdd(t)
    \/ \E t \in Threads : EvidenceComputeBelief(t)

SpecConflict == Init /\ [][NextConflict]_vars

\* ------------------------------------------------------------ logical time
\* time.LogicalTimestamp.Increment: *t++ on an unsigned integer.
Increment(ts) == (ts + 1) % (MaxTimestamp + 1)
\* time.LogicalTimestamp.Update
Update(ts, received) == Increment(IF received > ts THEN received ELSE ts)

\* ------------------------------------------------------- the observer's state
\* state.NewLocalBelief
NewLocalBelief(target) ==
    [target |-> target, belief |-> UnknownBelief, evidence |-> <<>>,
     halfLife |-> DefaultHalfLife, lastUpdated |-> 0]

\* state.LocalBelief.RecordEvidence
LocalRecordEvidence(lb, e) ==
    LET lastUpdated == IF e.Timestamp > lb.lastUpdated THEN e.Timestamp ELSE lb.lastUpdated
        evidence == Add(lb.evidence, e)
    IN  [lb EXCEPT !.lastUpdated = lastUpdated,
                   !.evidence = evidence,
                   !.belief = ComputeBelief(evidence, lb.halfLife, lastUpdated)]

\* state.LocalBelief.RecomputeAt
LocalRecomputeAt(lb, now) ==
    [lb EXCEPT !.belief = ComputeBelief(lb.evidence, lb.halfLife, now),
               !.lastUpdated = now]

\* state.LocalBelief.Reasoning
Reasoning(lb) ==
    LET n == Len(lb.evidence)
    IN  [Belief |-> lb.belief,
         EvidenceCount |-> n,
         AliveEvidenceCount |-> Cardinality({i \in 1..n : SuggestsAlive(lb.evidence[i])}),
         DeadEvidenceCount |-> Cardinality({i \in 1..n : SuggestsDead(lb.evidence[i])}),
         LatestEvidence |->
            IF n = 0 THEN 0
            ELSE CHOOSE m \in {lb.evidence[i].Timestamp : i \in 1..n} :
                    \A i \in 1..n : lb.evidence[i].Timestamp <= m]

\* state.NewObserverState
NewObserverState(selfID) == [selfID |-> selfID, beliefs |-> EmptyMap, logicalClock |-> 0]

\* The observer a thread works on: the one its last call left, or a new one.
HeldObserver(t) == IF calls[t].pc = "done" THEN calls[t].os ELSE NewObserverState(Witness(1))

\* state.ObserverState.RecordEvidence
ObserverRecordEvidence(t) ==
    /\ In(t, "call", "RecordEvidence")
    /\ LET c == calls[t]
           lb == IF c.target \in DOMAIN c.os.beliefs THEN c.os.beliefs[c.target]
                 ELSE NewLocalBelief(c.target)
           after == LocalRecordEvidence(lb, c.e)
       IN  calls' = [calls EXCEPT ![t] =
              [pc |-> "done", op |-> "RecordEvidence", id |-> c.target, res |-> after.belief,
               os |-> [c.os EXCEPT !.beliefs = Put(c.os.beliefs, c.target, after)]]]
    /\ UNCHANGED <<dead, witnesses, reports, state, lastSplit, samples, latencies>>

\* state.ObserverState.Query: nil for a target without belief.
ObserverQuery(t) ==
    /\ In(t, "call", "ObserverQuery")
    /\ LET c == calls[t]
       IN  calls' = [calls EXCEPT ![t] =
              [pc |-> "done", op |-> "ObserverQuery", id |-> c.target,
               res |-> IF c.target \in DOMAIN c.os.beliefs
                       THEN [Target |-> c.target,
                             Belief |-> c.os.beliefs[c.target].belief,
                             Reasoning |-> Reasoning(c.os.beliefs[c.target]),
                             Observer |-> c.os.selfID,
                             QueryTime |-> c.os.logicalClock]
                       ELSE NilRecord,
               os |-> c.os]]
    /\ UNCHANGED <<dead, witnesses, reports, state, lastSplit, samples, latencies>>

\* state.ObserverState.RecomputeBeliefs
ObserverRecomputeBeliefs(t) ==
    /\ In(t, "call", "RecomputeBeliefs")
    /\ LET c == calls[t]
       IN  calls' = [calls EXCEPT ![t] =
              [pc |-> "done", op |-> "RecomputeBeliefs", id |-> Target, res |-> Void,
               os |-> [c.os EXCEPT !.beliefs =
                          [id \in DOMAIN c.os.beliefs |->
                              LocalRecomputeAt(c.os.beliefs[id], c.os.logicalClock)]]]]
    /\ UNCHANGED <<dead, witnesses, reports, state, lastSplit, samples, latencies>>

\* state.ObserverState.Receive
ObserverReceive(t) ==
    /\ In(t, "call", "Receive")
    /\ LET c == calls[t]
           now == Update(c.os.logicalClock, c.received)
       IN  calls' = [calls EXCEPT ![t] =
              [pc |-> "done", op |-> "Receive", id |-> Target, res |-> now,
               os |-> [c.os EXCEPT !.logicalClock = now]]]
    /\ UNCHANGED <<dead, witnesses, reports, state, lastSplit, samples, latencies>>

ObserverCall(op, os) == [pc |-> "call", op |-> op, os |-> os]
RecordEvidenceCall(os, target, e) ==
    [pc |-> "call", op |-> "RecordEvidence", os |-> os, target |-> target, e |-> e]
ObserverQueryCall(os, target) ==
    [pc |-> "call", op |-> "ObserverQuery", os |-> os, target |-> target]
ReceiveCall(os, received) ==
    [pc |-> "call", op |-> "Receive", os |-> os, received |-> received]

\* The records an observer holds about a target.
Recorded(os, target) ==
    IF target \in DOMAIN os.beliefs THEN os.beliefs[target].evidence ELSE <<>>

\* One thread records evidence about the target and about its rebirth,
\* receives messages that advance its clock, recomputes and queries its
\* beliefs; the other adds a timeout and then direct responses to an evidence
\* set of its own and computes its belief.
ObserverCalls(t) ==
    IF t = "t1"
    THEN LET os == HeldObserver(t)
         IN  {RecordEvidenceCall(os, target, EvidenceChoices[j]) :
                 target \in {id \in Targets : Len(Recorded(os, id)) < MaxObserverEvidence},
                 j \in {1, 3}}
             \cup {ObserverQueryCall(os, target) : target \in Targets}
             \cup {ReceiveCall(os, received) :
                      received \in {r \in {249} : os.logicalClock <= r}}
             \cup {ObserverCall("RecomputeBeliefs", os)}
    ELSE LET es == IF calls[t].pc = "done"
                   THEN [evidence |-> calls[t].evidence, halfLife |-> calls[t].halfLife]
                   ELSE NewEvidenceSet
         IN  {AddCall(es, EvidenceChoices[j]) :
                 j \in IF Len(es.evidence) >= MaxObserverEvidence THEN {}
                       ELSE IF es.evidence = <<>> THEN {3}
                       ELSE {1}}
             \cup {ComputeBeliefCall(es, 250)}

NextObserver ==
    \/ \E t \in Threads : Invoke(t, ObserverCalls(t))
    \/ \E t \in Threads : ObserverRecordEvidence(t)
    \/ \E t \in Threads : ObserverQuery(t)
    \/ \E t \in Threads : ObserverRecomputeBeliefs(t)
    \/ \E t \in Threads : ObserverReceive(t)
    \/ \E t \in Threads : EvidenceAdd(t)
    \/ \E t \in Threads : EvidenceComputeBelief(t)

SpecObserver == Init /\ [][NextObserver]_vars

\* -------------------------------------------------------- the node identities
\* The node ids handed to Rebirth, Equal and IsRebirthOf: two bases with
\* every generation.
NodeIDs == {WithGeneration(base, g) : base \in {1, 99}, g \in 0..MaxGeneration}

\* types.NodeID.Rebirth called on n.
IdentityRebirth(t) ==
    /\ In(t, "call", "Rebirth")
    /\ calls' = [calls EXCEPT ![t] =
          [pc |-> "done", op |-> "Rebirth", id |-> @.n, res |-> Rebirth(@.n), n |-> @.n]]
    /\ UNCHANGED <<dead, witnesses, reports, state, lastSplit, samples, latencies>>

\* types.NodeID.Equal and types.NodeID.IsRebirthOf called on n with other.
IdentityCompare(t) ==
    /\ In(t, "call", "Compare")
    /\ calls' = [calls EXCEPT ![t] =
          [pc |-> "done", op |-> "Compare", id |-> @.n,
           res |-> [Equal |-> Equal(@.n, @.other), IsRebirthOf |-> IsRebirthOf(@.n, @.other)],
           n |-> @.n, other |-> @.other]]
    /\ UNCHANGED <<dead, witnesses, reports, state, lastSplit, samples, latencies>>

\* One thread makes rebirths of node ids, and rebirths of the rebirths it
\* got; the other compares node ids.
IdentityCalls(t) ==
    IF t = "t1"
    THEN {[pc |-> "call", op |-> "Rebirth", n |-> n] :
             n \in NodeIDs \cup (IF In(t, "done", "Rebirth") THEN {calls[t].res} ELSE {})}
    ELSE {[pc |-> "call", op |-> "Compare", n |-> n, other |-> other] :
             n \in NodeIDs, other \in NodeIDs}

NextIdentity ==
    \/ \E t \in Threads : Invoke(t, IdentityCalls(t))
    \/ \E t \in Threads : IdentityRebirth(t)
    \/ \E t \in Threads : IdentityCompare(t)

SpecIdentity == Init /\ [][NextIdentity]_vars

\* ------------------------------------------------------- the logical clock
\* The timestamps a clock starts from and receives: the small ones and the
\* largest ones.
Timestamps == {0, 1, 5, 10, MaxTimestamp - 1, MaxTimestamp}

\* The clock a thread works on: the one its last call left, or one that
\* starts at any of the timestamps.
HeldClocks(t) == IF calls[t].pc = "done" THEN {calls[t].local} ELSE Timestamps

\* time.LogicalTimestamp.Increment called on the clock local.
ClockIncrement(t) ==
    /\ In(t, "call", "Increment")
    /\ calls' = [calls EXCEPT ![t] =
          [pc |-> "done", op |-> "Increment", id |-> Target,
           res |-> Increment(@.local), local |-> Increment(@.local), before |-> @.local]]
    /\ UNCHANGED <<dead, witnesses, reports, state, lastSplit, samples, latencies>>

\* time.LogicalTimestamp.Update called on the clock local.
ClockUpdate(t) ==
    /\ In(t, "call", "Update")
    /\ calls' = [calls EXCEPT ![t] =
          [pc |-> "done", op |-> "Update", id |-> Target,
           res |-> Update(@.local, @.received), local |-> Update(@.local, @.received),
           before |-> @.local, received |-> @.received]]
    /\ UNCHANGED <<dead, witnesses, reports, state, lastSplit, samples, latencies>>

\* One thread increments its clock and updates it with received timestamps;
\* a clock belongs to one process.
ClockCalls(t) ==
    IF t = "t1"
    THEN UNION {{[pc |-> "call", op |-> "Increment", local |-> local]}
                \cup {[pc |-> "call", op |-> "Update", local |-> local, received |-> received] :
                         received \in Timestamps} : local \in HeldClocks(t)}
    ELSE {}

NextClock ==
    \/ \E t \in Threads : Invoke(t, ClockCalls(t))
    \/ \E t \in Threads : ClockIncrement(t)
    \/ \E t \in Threads : ClockUpdate(t)

SpecClock == Init /\ [][NextClock]_vars

\* ------------------------------------ the oracle and the trust of its witnesses
\* One thread reports about the target on behalf of two witnesses and
\* records correct and wrong reports of the witnesses in the oracle's
\* registry; the other queries the target.
OracleTrustCalls(t) ==
    IF t = "t1"
    THEN {ReceiveReportCall(Witness(i), Target, b) :
             i \in IF ReportCount < MaxReports THEN 1..2 ELSE {},
             b \in {StrongAlive, StrongDead}}
         \cup {RegistryCall(op, Witness(i)) :
                 op \in IF RecordCalls < MaxOracleRecordCalls
                        THEN {"RecordCorrect", "RecordWrong"} ELSE {},
                 i \in 1..2}
    ELSE {QueryCall(Target, req) : req \in {DefaultRequirement, StrictRequirement}}

NextOracleTrust ==
    \/ \E t \in Threads : Invoke(t, OracleTrustCalls(t))
    \/ \E t \in Threads : ReceiveReport(t)
    \/ \E t \in Threads : QueryFinality(t)
    \/ \E t \in Threads : QueryAnswer(t)
    \/ \E t \in Threads : RecordCorrectCall(t)
    \/ \E t \in Threads : RecordWrongCall(t)

SpecOracleTrust == Init /\ [][NextOracleTrust]_vars

\* ---------------------------------------------- the queries about two targets
\* A query whose steps after the finality check are taken one by one: the
\* call record holds what o.partition.Analyze returned to it.
StepwiseQueryCall(target, req) ==
    [pc |-> "call", op |-> "QueryWithRequirement", target |-> target, req |-> req,
     an |-> NilRecord]

\* analyzed of a query that reads the partition state and the split back from
\* the detector after the analysis.
analyzed_Shared(an, st, last) ==
    [state |-> st, split |-> IF st = ConfirmedPartition THEN last ELSE NilRecord]
\* pState, split := o.partition.Analyze(reports, target): the query goes on
\* with the values the call returned, whatever the detector holds by then.
analyzed(an, st, last) == an

\* Oracle.QueryWithRequirement, after the finality check: the report list,
\* the return when it is empty, and the partition analysis under d.mu.Lock(),
\* which writes the detector all the queries share.
QueryAnalyze(t) ==
    /\ In(t, "querying", "QueryWithRequirement")
    /\ calls[t].an = NilRecord
    /\ LET target == calls[t].target
           reps == reports[target]
           an == Analyze(reps, target)
       IN  IF Len(reps) = 0
           THEN /\ calls' = [calls EXCEPT ![t] =
                      Done("QueryWithRequirement", target,
                           QueryReports(target, calls[t].req, reps, an, witnesses))]
                /\ UNCHANGED <<state, lastSplit>>
           ELSE /\ state' = AnalyzeState(an)
                /\ lastSplit' = AnalyzeLastSplit(an, lastSplit)
                /\ calls' = [calls EXCEPT ![t].an = an]
    /\ UNCHANGED <<dead, witnesses, reports, samples, latencies>>

\* Oracle.QueryWithRequirement, after the analysis: the refusal on a
\* confirmed partition, the aggregation and the requirement.
QueryAggregate(t) ==
    /\ In(t, "querying", "QueryWithRequirement")
    /\ calls[t].an # NilRecord
    /\ RegistryFree(t)
    /\ calls' = [calls EXCEPT ![t] =
          Done("QueryWithRequirement", @.target,
               QueryReports(@.target, @.req, reports[@.target],
                            analyzed(@.an, state, lastSplit), witnesses))]
    /\ UNCHANGED <<dead, witnesses, reports, state, lastSplit, samples, latencies>>

\* One thread hands in reports about both targets (the i-th report comes from
\* witness i), declares the target dead and queries the target; the other
\* queries both targets.
IsolationCalls(t) ==
    IF t = "t1"
    THEN {ReceiveReportCall(Witness(ReportCount + 1), target, b) :
             target \in IF ReportCount < MaxIsolationReports THEN Targets ELSE {},
             b \in {StrongAlive, StrongDead}}
         \cup {DeclareDeathCall(Target, OnThreshold,
                                Evidence(Target, MinWitnesses, FALSE, FALSE), TRUE)}
         \cup {StepwiseQueryCall(Target, DefaultRequirement)}
    ELSE {StepwiseQueryCall(target, DefaultRequirement) : target \in Targets}

NextIsolation ==
    \/ \E t \in Threads : Invoke(t, IsolationCalls(t))
    \/ \E t \in Threads : ReceiveReport(t)
    \/ \E t \in Threads : QueryFinality(t)
    \/ \E t \in Threads : QueryAnalyze(t)
    \/ \E t \in Threads : QueryAggregate(t)
    \/ \E t \in Threads : DeclareDeathLock(t)
    \/ \E t \in Threads : DeclareDeathChecks(t)
    \/ \E t \in Threads : DeclareDeathReturn(t)

SpecIsolation == Init /\ [][NextIsolation]_vars

\* ------------------------------------------- the jitter and entropy trackers
\* Jitter ratios and factors are in thousandths, durations in milliseconds.

\* The largest and the smallest of a window of values, from the start values
\* the loops of the code begin with.
RECURSIVE WindowMax(_, _)
WindowMax(s, start) ==
    IF s = <<>> THEN start
    ELSE WindowMax(Tail(s), IF Head(s) > start THEN Head(s) ELSE start)
RECURSIVE WindowMin(_, _)
WindowMin(s, start) ==
    IF s = <<>> THEN start
    ELSE WindowMin(Tail(s), IF Head(s) < start THEN Head(s) ELSE start)
WindowSum(s) == SumOver(s, Len(s))

\* The sliding window: a full window drops its oldest value for the new one.
Slide(s, v) == Append(IF Len(s) >= WindowSize THEN Tail(s) ELSE s, v)

\* JitterTracker.RecordSample, before the lock: the ratio of a sample with
\* expected > 0, which is not negative.
JitterRatio(expected, actual) ==
    IF actual < expected THEN 0
    ELSE ((actual - expected) * ConfidenceOne) \div expected

\* JitterTracker.GetJitterFactor on the samples s
GetJitterFactor(s) ==
    LET mean == WindowSum(s) \div Len(s)
    IN  IF Len(s) = 0 THEN ConfidenceOne
        ELSE IF WindowMax(s, 0) > 2 * ConfidenceOne THEN 100
        ELSE IF mean > 500 THEN 200
        ELSE IF mean > 200 THEN 500
        ELSE ConfidenceOne - (mean * 5) \div 2

\* JitterTracker.JitterStats before its call of GetJitterFactor
JitterStats(s) ==
    IF Len(s) = 0
    THEN [SampleCount |-> 0, MeanJitter |-> 0, MaxJitter |-> 0, JitterFactor |-> 0]
    ELSE [SampleCount |-> Len(s), MeanJitter |-> WindowSum(s) \div Len(s),
          MaxJitter |-> WindowMax(s, 0), JitterFactor |-> Nil]

\* The integer root of x, rounded down, found between lo and hi.
RECURSIVE sqrtBetween(_, _, _)
sqrtBetween(x, lo, hi) ==
    IF lo >= hi THEN lo
    ELSE LET mid == (lo + hi + 1) \div 2
         IN  IF mid * mid <= x THEN sqrtBetween(x, mid, hi)
             ELSE sqrtBetween(x, lo, mid - 1)
\* math.Sqrt of the larger values the entropy works on.
SqrtLarge(x) == sqrtBetween(x, 0, 20000)

\* ResponseEntropy.Entropy on the latencies lat: the coefficient of variation
\* stddev / mean, capped at 1.  With S the sum of the squares of n * lat[i] -
\* sum, the variance is S / n^3 and stddev / mean is sqrt(S / n) / sum.
Entropy(lat) ==
    LET n == Len(lat)
        sum == WindowSum(lat)
        S == SumOver([i \in 1..n |-> (n * lat[i] - sum) * (n * lat[i] - sum)], n)
        cv == SqrtLarge((S * ConfidenceOne * ConfidenceOne) \div n) \div sum
    IN  IF n < 2 THEN ConfidenceOne \div 2
        ELSE IF sum = 0 THEN ConfidenceOne \div 2
        ELSE Min(cv, ConfidenceOne)

\* time.Hour
Hour == 3600000

\* ResponseEntropy.Stats before its call of Entropy
Stats(lat) ==
    IF Len(lat) = 0
    THEN [SampleCount |-> 0, MeanLatency |-> 0, MinLatency |-> 0, MaxLatency |-> 0,
          Entropy |-> 0]
    ELSE [SampleCount |-> Len(lat), MeanLatency |-> WindowSum(lat) \div Len(lat),
          MinLatency |-> WindowMin(lat, Hour), MaxLatency |-> WindowMax(lat, 0),
          Entropy |-> Nil]

\* The mutex a call works under: jt.mu or re.mu.
MutexOf(op) ==
    CASE op \in {"RecordSample", "GetJitterFactor", "JitterStats"} -> "jt.mu"
      [] op \in {"AddSample", "Entropy", "Stats"} -> "re.mu"
      [] OTHER -> Nil

\* A thread other than t holds the mutex mu for reading: it is inside
\* JitterStats or Stats, between its RLock and its deferred RUnlock.
ReaderInside(t, mu) ==
    \E u \in Threads \ {t} :
        calls[u].pc \in {"reading", "summed"} /\ MutexOf(calls[u].op) = mu

\* sync.RWMutex: Lock announces the writer before it waits for the readers
\* to leave, and every RLock that comes after the announcement waits until
\* the writer has had the lock and released it, a RLock of a thread that
\* holds the mutex for reading already included.  A thread other than t is
\* inside Lock or holds the mutex mu for writing.
WriterAnnounced(t, mu) ==
    \E u \in Threads \ {t} :
        calls[u].pc \in {"waiting", "locked"} /\ MutexOf(calls[u].op) = mu

\* GetJitterFactor and Entropy called from outside: RLock, the computation,
\* RUnlock
TrackerRead(t) ==
    /\ calls[t].pc = "call"
    /\ calls[t].op \in {"GetJitterFactor", "Entropy"}
    /\ ~WriterAnnounced(t, MutexOf(calls[t].op))
    /\ calls' = [calls EXCEPT ![t] =
          Done(@.op, Nil, IF @.op = "GetJitterFactor" THEN GetJitterFactor(samples)
                          ELSE Entropy(latencies))]
    /\ UNCHANGED <<dead, witnesses, reports, state, lastSplit, samples, latencies>>

\* JitterStats and Stats: mu.RLock()
StatsRLock(t) ==
    /\ calls[t].pc = "call"
    /\ calls[t].op \in {"JitterStats", "Stats"}
    /\ ~WriterAnnounced(t, MutexOf(calls[t].op))
    /\ calls' = [calls EXCEPT ![t].pc = "reading"]
    /\ UNCHANGED <<dead, witnesses, reports, state, lastSplit, samples, latencies>>

\* JitterStats and Stats under the read lock: the return for an empty
\* window, and the loop over the window
StatsLoop(t) ==
    /\ calls[t].pc = "reading"
    /\ calls[t].op \in {"JitterStats", "Stats"}
    /\ LET stats == IF calls[t].op = "JitterStats" THEN JitterStats(samples)
                    ELSE Stats(latencies)
       IN  calls' = [calls EXCEPT ![t] =
              IF stats.SampleCount = 0 THEN Done(@.op, Nil, stats)
              ELSE [pc |-> "summed", op |-> @.op, stats |-> stats]]
    /\ UNCHANGED <<dead, witnesses, reports, state, lastSplit, samples, latencies>>

\* JitterStats and Stats, the last field of the result: the call of
\* GetJitterFactor or Entropy, which takes the read lock once more, and the
\* deferred RUnlock
StatsNested(t) ==
    /\ calls[t].pc = "summed"
    /\ calls[t].op \in {"JitterStats", "Stats"}
    /\ ~WriterAnnounced(t, MutexOf(calls[t].op))
    /\ calls' = [calls EXCEPT ![t] =
          Done(@.op, Nil,
               IF @.op = "JitterStats"
               THEN [@.stats EXCEPT !.JitterFactor = GetJitterFactor(samples)]
               ELSE [@.stats EXCEPT !.Entropy = Entropy(latencies)])]
    /\ UNCHANGED <<dead, witnesses, reports, state, lastSplit, samples, latencies>>

\* RecordSample and AddSample: the return of RecordSample for expected <= 0,
\* and mu.Lock() entered
SampleAnnounce(t) ==
    /\ calls[t].pc = "call"
    /\ calls[t].op \in {"RecordSample", "AddSample"}
    /\ ~WriterAnnounced(t, MutexOf(calls[t].op))
    /\ calls' = [calls EXCEPT ![t] =
          IF @.op = "RecordSample" /\ @.expected <= 0
          THEN Done(@.op, Nil, Void)
          ELSE [@ EXCEPT !.pc = "waiting"]]
    /\ UNCHANGED <<dead, witnesses, reports, state, lastSplit, samples, latencies>>

\* RecordSample and AddSample: mu.Lock() returns, once the readers have left
SampleLock(t) ==
    /\ calls[t].pc = "waiting"
    /\ calls[t].op \in {"RecordSample", "AddSample"}
    /\ ~ReaderInside(t, MutexOf(calls[t].op))
    /\ calls' = [calls EXCEPT ![t].pc = "locked"]
    /\ UNCHANGED <<dead, witnesses, reports, state, lastSplit, samples, latencies>>

\* RecordSample and AddSample under the write lock: the sliding window and
\* the deferred unlock
SampleAppend(t) ==
    /\ calls[t].pc = "locked"
    /\ calls[t].op \in {"RecordSample", "AddSample"}
    /\ IF calls[t].op = "RecordSample"
       THEN /\ samples' = Slide(samples, JitterRatio(calls[t].expected, calls[t].actual))
            /\ UNCHANGED latencies
       ELSE /\ latencies' = Slide(latencies, calls[t].latency)
            /\ UNCHANGED samples
    /\ calls' = [calls EXCEPT ![t] = Done(@.op, Nil, Void)]
    /\ UNCHANGED <<dead, witnesses, reports, state, lastSplit>>

RecordSampleCall(expected, actual) ==
    [pc |-> "call", op |-> "RecordSample", expected |-> expected, actual |-> actual]
AddSampleCall(latency) == [pc |-> "call", op |-> "AddSample", latency |-> latency]
TrackerReadCall(op) == [pc |-> "call", op |-> op]

\* One thread reads the trackers, the other records samples: one that is not
\* recorded, one on time and one four times as long; latencies of 1 and 3
\* milliseconds.
TrackerCalls(t) ==
    IF t = "t1"
    THEN {TrackerReadCall(op) : op \in {"GetJitterFactor", "JitterStats", "Entropy", "Stats"}}
    ELSE {RecordSampleCall(0, 5), RecordSampleCall(10, 10), RecordSampleCall(10, 40)}
         \cup {AddSampleCall(latency) : latency \in {1, 3}}

\* A step of a tracker call of thread t.
TrackerProceed(t) ==
    \/ TrackerRead(t)
    \/ StatsRLock(t)
    \/ StatsLoop(t)
    \/ StatsNested(t)
    \/ SampleAnnounce(t)
    \/ SampleLock(t)
    \/ SampleAppend(t)

NextTrackers ==
    \/ \E t \in Threads : Invoke(t, TrackerCalls(t))
    \/ \E t \in Threads : TrackerProceed(t)

\* The scheduler lets every thread run, and a mutex that is released again
\* and again is handed to a thread that waits for it.
SpecTrackers ==
    Init /\ [][NextTrackers]_vars /\ \A t \in Threads : SF_vars(TrackerProceed(t))

\* ===================================================================== claims
\* Thread t returns from a call of op in this step.
Returns(t, op) ==
    /\ calls[t].pc \in {"call", "checked", "querying"}
    /\ calls'[t].pc = "done"
    /\ calls'[t].op = op

\* The preconditions of a death declaration other than "not yet dead", for
\* the arguments c of a DeclareDeath call.
PreconditionsMet(c) ==
    /\ c.aggregatedBelief.dead >= MinDeadConfidence
    /\ Len(c.witnessReports) >= MinWitnesses
    /\ c.hasNonTimeoutEvidence
    /\ ~Exceeds(calculateDisagreement(c.witnessReports), MaxDisagreement)

\* C1: finality is irreversible.  Once a node has a death record, no step of
\* any operation removes or changes the record, every IsDead on it returns
\* true, every DeclareDeath on it returns ErrAlreadyDead and every
\* AttemptResurrection on it returns ErrResurrection.
FinalityIrreversible ==
    [][\A id \in DOMAIN dead :
          /\ id \in DOMAIN dead'
          /\ dead'[id] = dead[id]
          /\ \A t \in Threads :
                /\ Returns(t, "IsDead") /\ calls'[t].id = id => calls'[t].res = TRUE
                /\ Returns(t, "DeclareDeath") /\ calls'[t].id = id
                      => calls'[t].res = ErrAlreadyDead
                /\ Returns(t, "AttemptResurrection") /\ calls'[t].id = id
                      => calls'[t].res = ErrResurrection]_vars

\* C1, its case: the target is dead, reports about it have arrived since, a
\* second declaration was turned down and so was a resurrection.
FinalityIrreversibleWitness ==
    /\ Target \in DOMAIN dead
    /\ Len(reports[Target]) = MaxReports
    /\ calls["t1"] = Done("DeclareDeath", Target, ErrAlreadyDead)
    /\ calls["t2"] = Done("AttemptResurrection", Target, ErrResurrection)

\* C2: finality is atomic.  A DeclareDeath call whose arguments meet the
\* preconditions returns success exactly when the node has no record as it
\* returns, and then the record is the one of its arguments; otherwise it
\* returns ErrAlreadyDead and changes nothing.  No record is ever replaced,
\* and two calls on one node never both return success.
FinalityAtomic ==
    /\ [][/\ \A id \in DOMAIN dead : id \in DOMAIN dead' /\ dead'[id] = dead[id]
          /\ \A t \in Threads :
                Returns(t, "DeclareDeath") /\ PreconditionsMet(calls[t]) =>
                   IF calls[t].nodeID \in DOMAIN dead
                   THEN calls'[t].res = ErrAlreadyDead /\ dead' = dead
                   ELSE /\ calls'[t].res = Nil
                        /\ DOMAIN dead' = DOMAIN dead \cup {calls[t].nodeID}
                        /\ dead'[calls[t].nodeID] =
                              DeathRecord(calls[t].nodeID, calls[t].aggregatedBelief,
                                          calls[t].witnessReports)]_vars
    /\ [](\A id \in Targets :
             ~(\A t \in Threads : calls[t] = Done("DeclareDeath", id, Nil)))

\* C2, its case: both threads declared the same node dead with arguments
\* that meet the preconditions; one succeeded, the other was turned down.
FinalityAtomicWitness ==
    /\ calls["t1"] = Done("DeclareDeath", Target, Nil)
    /\ calls["t2"] = Done("DeclareDeath", Target, ErrAlreadyDead)
    /\ Target \in DOMAIN dead

\* The arguments c of a DeclareDeath call describe the record rec.
RecordOf(c, rec) ==
    rec = DeathRecord(c.nodeID, c.aggregatedBelief, c.witnessReports)

\* C3: false death is forbidden.  Every record that enters the dead map is
\* written by a DeclareDeath call on a node without a record, whose dead mass
\* is at least MinDeadConfidence, with at least MinWitnesses reports, with
\* evidence other than timeouts and with a variance of the reported dead
\* masses of at most MaxDisagreement; a call for which one of these fails
\* returns an error and creates no record.  So every record kept has a dead
\* mass of at least MinDeadConfidence and names at least MinWitnesses reports.
FalseDeathForbidden ==
    /\ [][/\ \A id \in DOMAIN dead' \ DOMAIN dead :
                \E t \in Threads :
                   /\ Returns(t, "DeclareDeath")
                   /\ calls[t].nodeID = id
                   /\ PreconditionsMet(calls[t])
                   /\ calls'[t].res = Nil
                   /\ RecordOf(calls[t], dead'[id])
          /\ \A t \in Threads :
                /\ Returns(t, "DeclareDeath")
                /\ (calls[t].nodeID \in DOMAIN dead \/ ~PreconditionsMet(calls[t]))
                => calls'[t].res # Nil /\ dead' = dead]_vars
    /\ [](\A id \in DOMAIN dead :
             /\ dead[id].NodeID = id
             /\ dead[id].FinalBelief.dead >= MinDeadConfidence
             /\ Len(dead[id].Witnesses) >= MinWitnesses)

\* C3, its case: one node was declared dead on evidence that meets every
\* precondition, and a declaration of the other node was turned down for
\* want of evidence and left no record.
FalseDeathForbiddenWitness ==
    /\ DOMAIN dead = {Target}
    /\ calls["t1"] = Done("DeclareDeath", Target, Nil)
    /\ calls["t2"] = Done("DeclareDeath", Rebirth(Target), ErrInsufficientEvidence)

\* The number of distinct witnesses a death record names.
DistinctWitnesses(rec) ==
    Cardinality({rec.Witnesses[i] : i \in 1..Len(rec.Witnesses)})

\* C4: death requires multiple witnesses.  Every death record names at least
\* MinWitnesses distinct witness ids.
DeathNeedsDistinctWitnesses ==
    \A id \in DOMAIN dead : DistinctWitnesses(dead[id]) >= MinWitnesses

\* C4, its case: a node was declared dead on MinWitnesses or more reports
\* that all come from one witness.
DeathFromOneWitness ==
    \E id \in DOMAIN dead :
       /\ Len(dead[id].Witnesses) >= MinWitnesses
       /\ DistinctWitnesses(dead[id]) = 1

\* C5: silence alone cannot trigger finality.  A DeclareDeath call without
\* evidence other than timeouts never changes the dead map; on a node without
\* a record it returns ErrSilenceOnly exactly when the dead mass is at least
\* MinDeadConfidence and there are at least MinWitnesses reports, and
\* ErrInsufficientEvidence otherwise; on a dead node it returns
\* ErrAlreadyDead.
SilenceAloneNeverKills ==
    [][\A t \in Threads :
          Returns(t, "DeclareDeath") /\ ~calls[t].hasNonTimeoutEvidence =>
             /\ dead' = dead
             /\ calls'[t].res =
                   IF calls[t].nodeID \in DOMAIN dead
                   THEN ErrAlreadyDead
                   ELSE IF /\ calls[t].aggregatedBelief.dead >= MinDeadConfidence
                           /\ Len(calls[t].witnessReports) >= MinWitnesses
                   THEN ErrSilenceOnly
                   ELSE ErrInsufficientEvidence]_vars

\* C5, its case: on a node without a record, one declaration got
\* ErrSilenceOnly and another ErrInsufficientEvidence, and no record exists.
SilenceAloneNeverKillsWitness ==
    /\ dead = EmptyMap
    /\ calls["t1"] = Done("DeclareDeath", Target, ErrSilenceOnly)
    /\ calls["t2"] = Done("DeclareDeath", Target, ErrInsufficientEvidence)

\* C6: a DeclareDeath call that returns an error, and every
\* AttemptResurrection call, leave the dead map as it was.
ErrorsLeaveDeadMapUnchanged ==
    [][\A t \in Threads :
          /\ Returns(t, "DeclareDeath") /\ calls'[t].res # Nil => dead' = dead
          /\ Returns(t, "AttemptResurrection") => dead' = dead]_vars

\* C6, its case: with one node dead, a declaration of the other node failed
\* and a resurrection of the dead one was attempted; the map holds the dead
\* node alone.
ErrorsLeaveDeadMapUnchangedWitness ==
    /\ DOMAIN dead = {Target}
    /\ calls["t1"] = Done("DeclareDeath", Rebirth(Target), ErrSilenceOnly)
    /\ calls["t2"] = Done("AttemptResurrection", Target, ErrResurrection)

\* The belief of a node that is certainly dead, as a query reports it.
DeadBelief == BeliefOf(0, ConfidenceOne, 0)

\* C7: a query on a node that has a death record when the query starts its
\* finality check returns at once, with dead = true, belief (0, 1, 0) and
\* refused = false, whatever requirement it carries and whatever reports
\* about the node have arrived, a confirmed partition among them included.
DeadNodeQueriesAnswerDead ==
    [][\A t \in Threads :
          /\ In(t, "call", "QueryWithRequirement")
          /\ calls[t].target \in DOMAIN dead
          /\ calls'[t] # calls[t]
          => /\ calls'[t].pc = "done"
             /\ calls'[t].op = "QueryWithRequirement"
             /\ calls'[t].id = calls[t].target
             /\ calls'[t].res.Dead = TRUE
             /\ calls'[t].res.Belief = DeadBelief
             /\ calls'[t].res.Refused = FALSE]_vars

\* C7, its case: the target is dead, the reports about it form a confirmed
\* partition with a strongly-alive report among them, and a query on it
\* returned the dead answer.
DeadNodeQueriesAnswerDeadWitness ==
    /\ Target \in DOMAIN dead
    /\ Len(reports[Target]) = MaxReports
    /\ \E i \in 1..MaxReports : reports[Target][i].Belief = StrongAlive
    /\ Analyze(reports[Target], Target).state = ConfirmedPartition
    /\ calls["t2"] = Done("QueryWithRequirement", Target, QueryDead(Target))
    /\ calls["t2"].res.Belief = DeadBelief

\* C8: reports and queries never kill.  The dead map changes only in the
\* step in which a DeclareDeath call returns success, and a query returns
\* dead = true only for a node that has a death record.
ReportsAndQueriesNeverKill ==
    /\ [][/\ dead' # dead =>
                \E t \in Threads : Returns(t, "DeclareDeath") /\ calls'[t].res = Nil
          /\ \A t \in Threads :
                Returns(t, "QueryWithRequirement") /\ calls'[t].res.Dead
                   => calls'[t].id \in DOMAIN dead]_vars
    /\ [](\A t \in Threads :
             calls[t].pc = "done" /\ calls[t].op = "QueryWithRequirement"
                => (calls[t].res.Dead => calls[t].id \in DOMAIN dead))

\* C8, its case: every report the oracle holds says the target is dead, no
\* node was declared dead, and a query on the target that was answered from
\* those reports with a dominantly dead belief does not carry dead = true.
ReportsAndQueriesNeverKillWitness ==
    /\ dead = EmptyMap
    /\ Len(reports[Target]) = MaxReports
    /\ \A i \in 1..MaxReports : reports[Target][i].Belief = StrongDead
    /\ calls["t2"].pc = "done"
    /\ calls["t2"].op = "QueryWithRequirement"
    /\ calls["t2"].id = Target
    /\ calls["t2"].res.WitnessCount = MaxReports
    /\ Dominant(calls["t2"].res.Belief) = "DEAD"
    /\ ~calls["t2"].res.Dead

\* trust lies within [MinTrust, MaxTrust].
InTrustRange(trust) == MinTrust <= trust /\ trust <= MaxTrust

\* C9: after every sequence and interleaving of Register, RecordCorrect,
\* RecordWrong and RecordReport calls the trust of every witness lies within
\* [MinTrust, MaxTrust], and so does every value GetTrust returns.
TrustStaysInRange ==
    /\ \A id \in DOMAIN witnesses : InTrustRange(witnesses[id].Trust)
    /\ \A i \in 1..2 : InTrustRange(GetTrust(witnesses, Witness(i)))
    /\ \A t \in Threads :
          calls[t].pc = "done" /\ calls[t].op = "GetTrust" => InTrustRange(calls[t].res)

\* C9, its case: witness 1 was wrong so often that its trust would have left
\* the range without the clamp, and GetTrust returned the lowest trust.
TrustStaysInRangeWitness ==
    /\ Witness(1) \in DOMAIN witnesses
    /\ witnesses[Witness(1)].WrongReports * DecayRate > DefaultTrust - MinTrust
    /\ witnesses[Witness(1)].CorrectReports = 0
    /\ witnesses[Witness(1)].Trust = MinTrust
    /\ calls["t2"] = Done("GetTrust", Witness(1), MinTrust)

\* C10: Register is idempotent.  A Register call on an id that has a record
\* when the call returns leaves the registry as it was, whatever other calls
\* ran since it started; on an id without a record it adds the default
\* record and nothing else.  Registering twice gives the registry that
\* registering once gives.
RegisterIdempotent ==
    /\ [][\A t \in Threads :
             Returns(t, "Register") =>
                witnesses' = IF calls[t].id \in DOMAIN witnesses
                             THEN witnesses
                             ELSE Put(witnesses, calls[t].id, NewWitnessRecord(calls[t].id))]_vars
    /\ [](\A i \in 1..2 :
             Register(Register(witnesses, Witness(i)), Witness(i))
                = Register(witnesses, Witness(i)))

\* C10, its case: witness 1 has a record that record calls have changed, both
\* threads registered it again, and the record kept those changes.
RegisterIdempotentWitness ==
    /\ Witness(1) \in DOMAIN witnesses
    /\ witnesses[Witness(1)].WrongReports > 0
    /\ witnesses[Witness(1)].Trust < DefaultTrust
    /\ witnesses[Witness(1)].LastReport = StrongDead
    /\ \A t \in Threads : calls[t] = Done("Register", Witness(1), Void)

\* The trust scores that c RecordCorrect calls and w RecordWrong calls leave
\* when they run one after the other, in any order, on a new witness.
RECURSIVE SequentialTrust(_, _)
SequentialTrust(c, w) ==
    IF c = 0 /\ w = 0
    THEN {DefaultTrust}
    ELSE (IF c = 0 THEN {}
          ELSE {IF x + RecoveryRate > MaxTrust THEN MaxTrust ELSE x + RecoveryRate :
                   x \in SequentialTrust(c - 1, w)})
         \cup
         (IF w = 0 THEN {}
          ELSE {IF x - DecayRate < MinTrust THEN MinTrust ELSE x - DecayRate :
                   x \in SequentialTrust(c, w - 1)})

\* The record of id in w as a record call finds it: the one kept, or a new one.
RecordBefore(w, id) ==
    IF id \in DOMAIN w
    THEN w[id]
    ELSE [ID |-> id, Trust |-> DefaultTrust, CorrectReports |-> 0, WrongReports |-> 0,
          LastReport |-> ZeroBelief]

\* C11: trust dynamics.  RecordCorrect sets the trust to min(trust + 0.05, 1)
\* and adds one to the correct count, RecordWrong sets it to
\* max(trust - 0.10, 0.1) and adds one to the wrong count, each on a record
\* created at trust 0.8 when the id has none, and changes nothing else; after
\* every interleaving the trust of a witness is one that its counted calls
\* leave in some sequential order.  Recovery is slower than decay.
TrustDynamics ==
    /\ [][\A t \in Threads :
             LET id == calls[t].id
                 old == RecordBefore(witnesses, id)
             IN  /\ Returns(t, "RecordCorrect") =>
                       /\ DOMAIN witnesses' = DOMAIN witnesses \cup {id}
                       /\ \A k \in DOMAIN witnesses \ {id} : witnesses'[k] = witnesses[k]
                       /\ witnesses'[id] =
                             [old EXCEPT !.CorrectReports = @ + 1,
                                         !.Trust = IF @ + RecoveryRate > MaxTrust
                                                   THEN MaxTrust ELSE @ + RecoveryRate]
                 /\ Returns(t, "RecordWrong") =>
                       /\ DOMAIN witnesses' = DOMAIN witnesses \cup {id}
                       /\ \A k \in DOMAIN witnesses \ {id} : witnesses'[k] = witnesses[k]
                       /\ witnesses'[id] =
                             [old EXCEPT !.WrongReports = @ + 1,
                                         !.Trust = IF @ - DecayRate < MinTrust
                                                   THEN MinTrust ELSE @ - DecayRate]]_vars
    /\ [](\A id \in DOMAIN witnesses :
             witnesses[id].Trust \in
                SequentialTrust(witnesses[id].CorrectReports, witnesses[id].WrongReports))
    /\ [](RecoveryRate < DecayRate)

\* C11, its case: both threads recorded reports of witness 1, five correct
\* ones and a wrong one, and the trust is the one that the order "correct
\* five times (clamped at 1.0), then wrong" leaves.
TrustDynamicsWitness ==
    /\ Witness(1) \in DOMAIN witnesses
    /\ witnesses[Witness(1)].CorrectReports = 5
    /\ witnesses[Witness(1)].WrongReports = 1
    /\ witnesses[Witness(1)].Trust = MaxTrust - DecayRate
    /\ calls["t1"] = Done("RecordCorrect", Witness(1), Void)
    /\ calls["t2"] = Done("RecordWrong", Witness(1), Void)

\* C12: report ingestion is append-only.  A ReceiveReport call leaves the
\* list of its target as it was, followed by the new report, and every other
\* list as it was; no step of any operation changes a list otherwise, so a
\* list only ever grows at its end, by one entry per call.
ReportsAppendOnly ==
    [][/\ \A t \in Threads :
             Returns(t, "ReceiveReport") =>
                /\ reports'[calls[t].target] =
                      reports[calls[t].target]
                         \o <<[Witness |-> calls[t].witnessID, Target |-> calls[t].target,
                               Belief |-> calls[t].belief]>>
                /\ \A other \in Targets \ {calls[t].target} : reports'[other] = reports[other]
       /\ \A target \in Targets :
             /\ Len(reports'[target]) >= Len(reports[target])
             /\ SubSeq(reports'[target], 1, Len(reports[target])) = reports[target]
       /\ reports' # reports => \E t \in Threads : Returns(t, "ReceiveReport")]_vars

\* C12, its case: two ReceiveReport calls for the target, one of each thread
\* and with different beliefs, both returned, and the list holds the two
\* reports in the order in which they were appended.
ReportsAppendOnlyWitness ==
    /\ \A t \in Threads : calls[t] = Done("ReceiveReport", Target, Void)
    /\ Len(reports[Target]) = 2
    /\ reports[Target][1].Witness = Witness(2)
    /\ reports[Target][2].Witness = Witness(1)
    /\ reports[Target][1].Belief # reports[Target][2].Belief
    /\ reports[Rebirth(Target)] = <<>>

\* The thread t holds the answer of a query on target that was made from the
\* report list.
Answered(t, target) ==
    /\ calls[t].pc = "done"
    /\ calls[t].op = "QueryWithRequirement"
    /\ calls[t].id = target
    /\ ~calls[t].res.Dead

\* C13: report visibility.  While a query is past its finality check no
\* report is appended, so the list it reads is the one of the completed
\* ReceiveReport calls at its start; the witnessCount it returns is the
\* length of that list, and it is not below the witnessCount any query on
\* the same target returned before.
ReportsVisible ==
    [][/\ (\E t \in Threads : ReadsOracle(t)) => reports' = reports
       /\ \A t \in Threads :
             Returns(t, "QueryWithRequirement") /\ calls[t].pc = "querying" =>
                /\ calls'[t].res.WitnessCount = Len(reports[calls[t].target])
                /\ \A u \in Threads :
                      Answered(u, calls[t].target)
                         => calls'[t].res.WitnessCount >= calls[u].res.WitnessCount]_vars

\* C13, its case: a query returned after one report about the target, and a
\* later query of the other thread after a second report returned both.
ReportsVisibleWitness ==
    /\ Answered("t1", Target)
    /\ Answered("t2", Target)
    /\ calls["t1"].res.WitnessCount = 1
    /\ calls["t2"].res.WitnessCount = 2
    /\ Len(reports[Target]) = 2

\* The orders in which the reports of the list reps can have been appended.
Orders(reps) ==
    {[i \in 1..Len(reps) |-> reps[f[i]]] :
        f \in {g \in [1..Len(reps) -> 1..Len(reps)] :
                  \A i, j \in 1..Len(reps) : g[i] = g[j] => i = j}}

\* What a query answers about target from the report list reps.
AnswerFrom(target, req, reps) ==
    QueryReports(target, req, reps, Analyze(reps, target), witnesses)

\* Two answers agree in belief, disagreement, refusal and partition state.
SameAnswer(a, b) ==
    /\ a.Belief = b.Belief
    /\ a.Disagreement = b.Disagreement
    /\ a.Refused = b.Refused
    /\ a.PartitionState = b.PartitionState

\* C14: order independence.  The answer a query gave from the present report
\* list of the target is the answer it gives from the same reports appended
\* in any other order.
AnswerIndependentOfOrder ==
    \A t \in Threads : \A req \in Requirements :
       Answered(t, Target) /\ calls[t].res = AnswerFrom(Target, req, reports[Target])
          => \A reps \in Orders(reports[Target]) :
                SameAnswer(calls[t].res, AnswerFrom(Target, req, reps))

\* C14, its case: the target has two strongly-alive reports followed by one
\* that differs from them by 0.06, the answer to a default query carries the
\* correlation penalty (alive mass 0.7 times the average), and the same
\* reports with the differing one first give an answer without it.
AnswerDependsOnOrder ==
    /\ Len(reports[Target]) = 3
    /\ [i \in 1..3 |-> reports[Target][i].Belief] = <<StrongAlive, StrongAlive, NearAlive>>
    /\ Answered("t2", Target)
    /\ calls["t2"].res = AnswerFrom(Target, DefaultRequirement, reports[Target])
    /\ ~calls["t2"].res.Refused
    /\ calls["t2"].res.Belief.alive < 700
    /\ AnswerFrom(Target, DefaultRequirement,
                  <<reports[Target][3], reports[Target][1], reports[Target][2]>>).Belief.alive > 800

\* The number of reports of the list reps whose dominant state is s.
DominantCount(reps, s) ==
    Cardinality({i \in 1..Len(reps) : Dominant(reps[i].Belief) = s})

\* The smaller of the alive and the dead vote counts of the list reps.
MinorityVotes(reps) ==
    IF DominantCount(reps, "ALIVE") < DominantCount(reps, "DEAD")
    THEN DominantCount(reps, "ALIVE") ELSE DominantCount(reps, "DEAD")

\* C15: partition refusal.  A query that passed the finality check and whose
\* report list the detector classifies as a confirmed partition returns
\* refused = true, the partition state CONFIRMED_PARTITION, the unknown
\* belief (0, 0, 1) and the disagreement min(aliveVotes, deadVotes) / total,
\* whatever its requirement.
PartitionRefusal ==
    [][\A t \in Threads :
          LET reps == reports[calls[t].target]
          IN  /\ Returns(t, "QueryWithRequirement")
              /\ calls[t].pc = "querying"
              /\ Len(reps) > 0
              /\ Analyze(reps, calls[t].target).state = ConfirmedPartition
              => /\ calls'[t].res.Refused
                 /\ ~calls'[t].res.Dead
                 /\ calls'[t].res.PartitionState = "CONFIRMED_PARTITION"
                 /\ calls'[t].res.Belief = [alive |-> 0, dead |-> 0, unknown |-> ConfidenceOne]
                 /\ calls'[t].res.Disagreement =
                       [num |-> MinorityVotes(reps), den |-> Len(reps)]
                 /\ MinorityVotes(reps) * ConfidenceOne > disagreementThreshold * Len(reps)]_vars

\* C15, its case: an alive-dominant and a dead-dominant report split the
\* witnesses of the target one to one, and the query was refused with
\* disagreement 1/2.
PartitionRefusalWitness ==
    /\ Target \notin DOMAIN dead
    /\ Len(reports[Target]) = 2
    /\ DominantCount(reports[Target], "ALIVE") = 1
    /\ DominantCount(reports[Target], "DEAD") = 1
    /\ Answered("t2", Target)
    /\ calls["t2"].res.Refused
    /\ calls["t2"].res.PartitionState = ConfirmedPartition
    /\ calls["t2"].res.Disagreement = [num |-> 1, den |-> 2]

\* C16: with the default requirement a query is refused exactly when its
\* target passed the finality check, has at least one report and the
\* detector classifies the reports as a confirmed partition; the requirement
\* checks never refuse.
DefaultRefusesOnlyOnPartition ==
    [][\A t \in Threads :
          LET reps == reports[calls[t].target]
          IN  Returns(t, "QueryWithRequirement") /\ calls[t].req = DefaultRequirement =>
                 calls'[t].res.Refused
                    = (/\ calls[t].pc = "querying"
                       /\ Len(reps) >= 1
                       /\ Analyze(reps, calls[t].target).state = ConfirmedPartition)]_vars

\* C16, its case: the reports about the target are no partition, a default
\* query was answered from them, and a strict query on the same reports is
\* refused.
DefaultRefusesOnlyOnPartitionWitness ==
    /\ Len(reports[Target]) >= 2
    /\ Analyze(reports[Target], Target).state # ConfirmedPartition
    /\ Answered("t2", Target)
    /\ calls["t2"].res = AnswerFrom(Target, DefaultRequirement, reports[Target])
    /\ ~calls["t2"].res.Refused
    /\ AnswerFrom(Target, StrictRequirement, reports[Target]).Refused

\* The dominant side of the belief b is positive and below its minimum in req.
DominantBelowMinimum(b, req) ==
    \/ Dominant(b) = "ALIVE" /\ b.alive > 0 /\ b.alive < req.MinAlive
    \/ Dominant(b) = "DEAD" /\ b.dead > 0 /\ b.dead < req.MinDead

\* C17: requirement check.  A query that passed the finality check, has
\* reports and no confirmed partition, and whose aggregated belief has a
\* dominant side that is positive and below its own minimum, is refused with
\* the reason "insufficient confidence to meet requirements".
DominantSideBelowMinimumRefused ==
    [][\A t \in Threads :
          LET reps == reports[calls[t].target]
          IN  /\ Returns(t, "QueryWithRequirement")
              /\ calls[t].pc = "querying"
              /\ Len(reps) > 0
              /\ Analyze(reps, calls[t].target).state # ConfirmedPartition
              /\ DominantBelowMinimum(Aggregate(reps, witnesses).Belief, calls[t].req)
              => /\ calls'[t].res.Refused
                 /\ calls'[t].res.RefusalReason
                       = "insufficient confidence to meet requirements"]_vars

\* C17, its case: the one report about the target is (0.60, 0.25, 0.15), a
\* query that requires alive >= 0.7, no dead minimum and unknown <= 0.2 has
\* passed the finality check, and the answer it will return from that report
\* is not refused although the alive mass is dominant and below 0.7.
DominantSideBelowMinimumAnswered ==
    /\ Len(reports[Target]) = 1
    /\ reports[Target][1].Belief = MidAlive
    /\ calls["t2"].pc = "querying"
    /\ calls["t2"].req = AliveRequirement
    /\ DominantBelowMinimum(Aggregate(reports[Target], witnesses).Belief, AliveRequirement)
    /\ ~AnswerFrom(Target, AliveRequirement, reports[Target]).Refused

\* C18: uncertainty check.  A query that passed the finality check, has at
\* least one report and no confirmed partition is refused whenever the
\* aggregated unknown mass exceeds the MaxUnknown of its requirement, with
\* the reason "uncertainty too high" unless the insufficient-confidence
\* refusal came first; an answer that is not refused has an unknown mass of
\* at most MaxUnknown.
UncertaintyRefused ==
    [][\A t \in Threads :
          LET reps == reports[calls[t].target]
              b == Aggregate(reps, witnesses).Belief
              req == calls[t].req
          IN  /\ Returns(t, "QueryWithRequirement")
              /\ calls[t].pc = "querying"
              /\ Len(reps) >= 1
              /\ Analyze(reps, calls[t].target).state # ConfirmedPartition
              => /\ b.unknown > req.MaxUnknown =>
                       /\ calls'[t].res.Refused
                       /\ \/ calls'[t].res.RefusalReason = "uncertainty too high"
                          \/ /\ calls'[t].res.RefusalReason
                                   = "insufficient confidence to meet requirements"
                             /\ b.alive > 0 /\ b.alive < req.MinAlive
                             /\ b.dead > 0 /\ b.dead < req.MinDead
                 /\ ~calls'[t].res.Refused =>
                       /\ calls'[t].res.Belief = b
                       /\ calls'[t].res.Belief.unknown <= req.MaxUnknown]_vars

\* C18, its case: a query on the target, which has reports that are no
\* confirmed partition, was refused for an unknown mass above 0.2 that the
\* default requirement accepts.
UncertaintyRefusedWitness ==
    /\ Len(reports[Target]) >= 1
    /\ Analyze(reports[Target], Target).state # ConfirmedPartition
    /\ Answered("t2", Target)
    /\ calls["t2"].res = AnswerFrom(Target, AliveRequirement, reports[Target])
    /\ calls["t2"].res.Refused
    /\ calls["t2"].res.RefusalReason = "uncertainty too high"
    /\ calls["t2"].res.Belief.unknown > AliveRequirement.MaxUnknown
    /\ ~AnswerFrom(Target, DefaultRequirement, reports[Target]).Refused

\* C19: unknown on empty.  A query that passed the finality check and finds
\* no reports about its target returns the belief (0, 0, 1), refused = false,
\* dead = false, witnessCount = 0 and the evidence entry "no witness reports
\* available", whatever its requirement.
UnknownOnEmpty ==
    [][\A t \in Threads :
          /\ Returns(t, "QueryWithRequirement")
          /\ calls[t].pc = "querying"
          /\ Len(reports[calls[t].target]) = 0
          => /\ calls'[t].res.Belief = [alive |-> 0, dead |-> 0, unknown |-> ConfidenceOne]
             /\ ~calls'[t].res.Refused
             /\ ~calls'[t].res.Dead
             /\ calls'[t].res.WitnessCount = 0
             /\ \E i \in 1..Len(calls'[t].res.Evidence) :
                   calls'[t].res.Evidence[i] = "no witness reports available"]_vars

\* C19, its case: the target has no reports and no death record, and a query
\* on it was answered with an unknown mass that is above the MaxUnknown of
\* the strict and of the (0.7, 0, 0.2) requirement.
UnknownOnEmptyWitness ==
    /\ reports[Target] = <<>>
    /\ dead = EmptyMap
    /\ Answered("t2", Target)
    /\ ~calls["t2"].res.Refused
    /\ calls["t2"].res.WitnessCount = 0
    /\ calls["t2"].res.Belief.unknown > StrictRequirement.MaxUnknown
    /\ calls["t2"].res.Belief.unknown > AliveRequirement.MaxUnknown

\* Every report of the list reps has the dominant state ALIVE.
AllAlive(reps) == \A i \in 1..Len(reps) : Dominant(reps[i].Belief) = "ALIVE"

WitnessesFor(reps, s) ==
    {reps[i].Witness : i \in {j \in 1..Len(reps) : Dominant(reps[j].Belief) = s}}

\* The partition state that fits a report list: confirmed when both sides
\* have votes and the smaller side is more than 0.4 of all reports, suspected
\* when both sides have votes otherwise or when one side is empty and more
\* than half of the reports are unknown, none for fewer than two reports and
\* in every other case.
Classified(reps) ==
    LET aliveVotes == Cardinality({i \in 1..Len(reps) : Dominant(reps[i].Belief) = "ALIVE"})
        deadVotes == Cardinality({i \in 1..Len(reps) : Dominant(reps[i].Belief) = "DEAD"})
        unknownVotes == Cardinality({i \in 1..Len(reps) : Dominant(reps[i].Belief) = "UNKNOWN"})
        total == Len(reps)
        smaller == IF aliveVotes <= deadVotes THEN aliveVotes ELSE deadVotes
    IN  CASE total < 2 -> NoPartition
          [] total >= 2 /\ aliveVotes > 0 /\ deadVotes > 0 /\ 10 * smaller > 4 * total ->
                ConfirmedPartition
          [] total >= 2 /\ aliveVotes > 0 /\ deadVotes > 0 /\ 10 * smaller <= 4 * total ->
                SuspectedPartition
          [] total >= 2 /\ (aliveVotes = 0 \/ deadVotes = 0) /\ 2 * unknownVotes > total ->
                SuspectedPartition
          [] OTHER -> NoPartition

\* The elements of a sequence, as a set.
Range(s) == {s[i] : i \in 1..Len(s)}

\* C21: Analyze returns the partition state that fits the report list, and a
\* split only with a confirmed partition; the split then holds two groups, the
\* witnesses of the alive-dominant reports and those of the dead-dominant
\* reports, and lists the target as ambiguous.
PartitionClassified ==
    [][\A t \in Threads :
          Returns(t, "Analyze") =>
             LET reps == calls[t].reports
                 res == calls'[t].res
             IN  /\ res.state = Classified(reps)
                 /\ (res.state # ConfirmedPartition => res.split = NilRecord)
                 /\ (res.state = ConfirmedPartition =>
                        /\ Len(res.split.Groups) = 2
                        /\ Range(res.split.Groups[1].Witnesses) = WitnessesFor(reps, "ALIVE")
                        /\ Range(res.split.Groups[2].Witnesses) = WitnessesFor(reps, "DEAD")
                        /\ res.split.Ambiguous = <<calls[t].target>>)]_vars

\* Analyze has returned a confirmed partition with one witness on each side,
\* and the detector reports the confirmed state.
PartitionClassifiedWitness ==
    \E t \in Threads :
        /\ calls[t].pc = "done"
        /\ calls[t].op = "Analyze"
        /\ calls[t].res.state = ConfirmedPartition
        /\ Len(calls[t].res.split.Groups[1].Witnesses) = 1
        /\ Len(calls[t].res.split.Groups[2].Witnesses) = 1
        /\ state = ConfirmedPartition

\* The record a successful declaration of the death of id creates.
RecordAsCreated(id) ==
    DeathRecord(id, SoundDeclaration(id).aggregatedBelief, SoundDeclaration(id).witnessReports)

\* C22: whatever callers did to the records GetDeathRecord returned to them
\* and to the report slices they passed to DeclareDeath, GetDeathRecord
\* returns the record of a dead node as the successful DeclareDeath created it.
DeathRecordsNeverYieldedMutably ==
    [][\A t \in Threads :
          Returns(t, "GetDeathRecord") /\ calls'[t].id \in DOMAIN dead =>
             calls'[t].res = RecordAsCreated(calls'[t].id)]_vars

\* C22, where it fails: the stored record of a dead node has a first witness
\* that a caller wrote into the copy it was given, while its belief is the
\* one of the declaration.
DeathRecordChangedThroughCopy ==
    \E id \in DOMAIN dead :
        /\ dead[id].Witnesses[1] = Stranger
        /\ dead[id].FinalBelief = OnThreshold
        /\ dead[id] # RecordAsCreated(id)


\* C23: the Reports of an AggregateResult are a copy of the list passed to
\* Aggregate: a caller's write to one of the two never changes the other.
AggregateReturnsCopy ==
    [][\A t \in Threads :
          /\ In(t, "done", "Aggregate")
          /\ calls'[t].pc = "done"
          /\ calls'[t].op = "Aggregate"
          => \/ calls'[t].reports = calls[t].reports
             \/ calls'[t].res.Reports = calls[t].res.Reports]_vars

\* C23, where it fails: after a caller's single write, the list passed to
\* Aggregate and the Reports of the result both carry the written belief in
\* their first element, while the result's belief is still the aggregate of
\* the reports as they were.
AggregateReportsShared ==
    \E t \in Threads :
        /\ In(t, "done", "Aggregate")
        /\ Len(calls[t].reports) = 2
        /\ calls[t].reports[1].Belief = UnknownBelief
        /\ calls[t].res.Reports[1].Belief = UnknownBelief
        /\ calls[t].res.Belief # Aggregate(calls[t].reports, witnesses).Belief

\* The locks that come after the oracle lock in the lock order.
InnerLocks == {"finality", "detector", "registry"}

\* C24: no thread takes the oracle lock while it holds a finality, detector
\* or registry lock, nor the finality lock while it holds the registry lock,
\* and every call that was made returns: no thread stays inside a call for
\* ever.
LockDiscipline ==
    /\ [](\A t \in Threads :
            /\ "oracle" \in Acquires(calls[t]) => Holds(calls[t]) \cap InnerLocks = {}
            /\ "finality" \in Acquires(calls[t]) => "registry" \notin Holds(calls[t]))
    /\ \A t \in Threads : []<>(calls[t].pc \in {"idle", "done"})

\* One thread holds the oracle lock inside ReceiveReport and needs the
\* registry lock, which the other thread holds inside Register, after a
\* first report has been appended.
LockDisciplineWitness ==
    /\ In("t1", "locked", "ReceiveReport")
    /\ In("t2", "locked", "Register")
    /\ ~Free("t1", "registry")
    /\ Len(reports[Target]) = 1
\* C25: the belief Aggregate returns for a list of two or more reports has
\* an unknown mass of at least 0.05, whatever the trust of the witnesses.
AggregateKeepsUnknown ==
    [][\A t \in Threads :
          Returns(t, "Aggregate") /\ Len(calls[t].reports) >= 2 =>
             20 * calls'[t].res.Belief.unknown >= ConfidenceOne]_vars

\* Aggregate has returned, for two reports whose unknown masses average less
\* than 0.05, a belief with an unknown mass of exactly 0.05 and an alive mass
\* above 0.9, with a distrusted first witness.
AggregateKeepsUnknownWitness ==
    \E t \in Threads :
        /\ In(t, "done", "Aggregate")
        /\ calls[t].res.WitnessCount = 2
        /\ 20 * calls[t].res.Belief.unknown = ConfidenceOne
        /\ calls[t].res.Belief.alive > 900
        /\ GetTrust(witnesses, Witness(1)) = MinTrust


\* C26: every belief carried by the result of a query has its alive, dead and
\* unknown mass each between 0 and 1 and the three sum to 1, within the
\* tolerance of NewBelief, whether the node is declared dead, has no reports,
\* is refused for a partition or is answered from the aggregate.
BeliefSums(b) ==
    /\ \A f \in {"alive", "dead", "unknown"} : b[f] >= 0 /\ b[f] <= ConfidenceOne
    /\ Abs(b.alive + b.dead + b.unknown - ConfidenceOne) <= BeliefSumEpsilon
QueryBeliefSums ==
    [][\A t \in Threads :
          Returns(t, "QueryWithRequirement") => BeliefSums(calls'[t].res.Belief)]_vars
QueryBeliefSumsWitness ==
    \E t \in Threads :
        /\ In(t, "done", "QueryWithRequirement")
        /\ ~calls[t].res.Dead
        /\ calls[t].res.WitnessCount = 3
        /\ calls[t].res.PartitionState = NoPartition
        /\ calls[t].res.Belief \notin {reports[Target][i].Belief : i \in 1..3} \cup {UnknownBelief}
        /\ BeliefSums(calls[t].res.Belief)


\* C27: Aggregate of an empty list returns UnknownBelief with disagreement 0;
\* Aggregate of a single report returns that report's belief with
\* disagreement 0 and count 1, so a belief that the aggregator produced and
\* that is submitted again as a single report comes back unchanged.
AggregateBaseCases ==
    [][\A t \in Threads :
          Returns(t, "Aggregate") =>
             /\ Len(calls[t].reports) = 0 =>
                   /\ calls'[t].res.Belief = UnknownBelief
                   /\ calls'[t].res.Disagreement = 0
             /\ Len(calls[t].reports) = 1 =>
                   /\ calls'[t].res.Belief = calls[t].reports[1].Belief
                   /\ calls'[t].res.Disagreement = 0
                   /\ calls'[t].res.WitnessCount = 1]_vars
AggregateBaseCasesWitness ==
    \E t \in Threads :
        /\ In(t, "done", "Aggregate")
        /\ Len(calls[t].reports) = 1
        /\ calls[t].reports[1].Belief \notin AggregateBeliefs \cup {UnknownBelief}
        /\ calls[t].res.Belief = calls[t].reports[1].Belief
        /\ calls[t].res.Disagreement = 0
        /\ GetTrust(witnesses, Witness(1)) = MinTrust


\* C28: when two or more reports all carry the same belief B, Aggregate
\* returns alive = 0.7 * B.alive, dead = 0.7 * B.dead and
\* unknown = 1 - alive - dead, with disagreement 0; so the alive and the dead
\* mass of identical witnesses never exceed 0.7.
Identical(reps) == \A i \in 1..Len(reps) : reps[i].Belief = reps[1].Belief
CorrelationPenalty ==
    [][\A t \in Threads :
          Returns(t, "Aggregate") /\ Len(calls[t].reports) >= 2 /\ Identical(calls[t].reports) =>
             LET B == calls[t].reports[1].Belief
                 got == calls'[t].res
             IN  /\ 10 * got.Belief.alive = 7 * B.alive
                 /\ 10 * got.Belief.dead = 7 * B.dead
                 /\ got.Belief.unknown = ConfidenceOne - got.Belief.alive - got.Belief.dead
                 /\ got.Disagreement = 0
                 /\ 10 * got.Belief.alive <= 7 * ConfidenceOne
                 /\ 10 * got.Belief.dead <= 7 * ConfidenceOne]_vars
CorrelationPenaltyWitness ==
    \E t \in Threads :
        /\ In(t, "done", "Aggregate")
        /\ Len(calls[t].reports) = 3
        /\ Identical(calls[t].reports)
        /\ calls[t].reports[1].Belief = CertainlyDead
        /\ 10 * calls[t].res.Belief.dead = 7 * ConfidenceOne
        /\ 10 * calls[t].res.Belief.unknown = 3 * ConfidenceOne
        /\ GetTrust(witnesses, Witness(1)) # GetTrust(witnesses, Witness(2))


\* C29: for every evidence set that is not empty, whatever the kinds and the
\* number of its records, with weights between 0 and 1, and at every logical
\* time, ComputeBelief returns alive <= 0.90, dead <= 0.90 and
\* unknown >= 0.05, and the three sum to 1.
EvidenceCertaintyCap ==
    [][\A t \in Threads :
          Returns(t, "ComputeBelief") /\ Len(calls[t].evidence) > 0 =>
             LET b == calls'[t].res
             IN  /\ 10 * b.alive <= 9 * ConfidenceOne
                 /\ 10 * b.dead <= 9 * ConfidenceOne
                 /\ 20 * b.unknown >= ConfidenceOne
                 /\ Abs(b.alive + b.dead + b.unknown - ConfidenceOne) <= BeliefSumEpsilon]_vars
EvidenceCertaintyCapWitness ==
    \E t \in Threads :
        /\ In(t, "done", "ComputeBelief")
        /\ Len(calls[t].evidence) = MaxEvidence
        /\ \A i \in 1..MaxEvidence : calls[t].evidence[i] = NewDirectResponse(100, 50)
        /\ 10 * calls[t].res.alive = 9 * ConfidenceOne
        /\ 10 * calls[t].res.unknown = ConfidenceOne


\* C30: for every evidence set that holds only Timeout and SchedulingJitter
\* records, however many and at any logical time, ComputeBelief returns
\* dead < 0.95, so IsCertainDead is false; a set that holds only
\* SchedulingJitter records yields dead = 0 and never the dominant state DEAD.
OnlyKinds(evidence, kinds) == \A i \in 1..Len(evidence) : evidence[i].Kind \in kinds
SilenceAndLoadNotDeath ==
    [][\A t \in Threads :
          Returns(t, "ComputeBelief") =>
             /\ OnlyKinds(calls[t].evidence, {KindTimeout, KindSchedulingJitter}) =>
                   /\ ~IsCertainDead(calls'[t].res)
                   /\ 20 * calls'[t].res.dead < 19 * ConfidenceOne
             /\ OnlyKinds(calls[t].evidence, {KindSchedulingJitter}) =>
                   /\ calls'[t].res.dead = 0
                   /\ Dominant(calls'[t].res) # "DEAD"]_vars
SilenceAndLoadNotDeathWitness ==
    \E t \in Threads :
        /\ In(t, "done", "ComputeBelief")
        /\ Len(calls[t].evidence) = MaxEvidence
        /\ OnlyKinds(calls[t].evidence, {KindTimeout, KindSchedulingJitter})
        /\ \E i \in 1..MaxEvidence : calls[t].evidence[i].Kind = KindSchedulingJitter
        /\ Dominant(calls[t].res) = "DEAD"
        /\ 10 * calls[t].res.dead > 8 * ConfidenceOne
        /\ ~IsCertainDead(calls[t].res)


\* C31: when a Timeout record (weight 0.1, 0.2 or 0.3) is appended to an
\* evidence set that holds only direct responses (weights 1.0, 0.8 or 0.6),
\* the unknown mass of the belief, computed at the same logical time, is not
\* lower than it was before the Timeout was added.
Front(s) == SubSeq(s, 1, Len(s) - 1)
TimeoutAfterResponses(evidence) ==
    /\ Len(evidence) >= 2
    /\ evidence[Len(evidence)].Kind = KindTimeout
    /\ OnlyKinds(Front(evidence), {KindDirectResponse})
ConflictWidensBelief ==
    [][\A t \in Threads :
          Returns(t, "ComputeBelief") /\ TimeoutAfterResponses(calls[t].evidence) =>
             calls'[t].res.unknown >=
                ComputeBelief(Front(calls[t].evidence), calls[t].halfLife, calls[t].now).unknown]_vars
ConflictNarrowsBelief ==
    \E t \in Threads :
        /\ In(t, "done", "ComputeBelief")
        /\ calls[t].evidence = <<NewDirectResponse(0, 1000), NewTimeout(100, 100, 100)>>
        /\ calls[t].halfLife = DefaultHalfLife
        /\ calls[t].now = 250
        /\ calls[t].res.unknown <
              ComputeBelief(Front(calls[t].evidence), calls[t].halfLife, calls[t].now).unknown


\* C32: Add(e) makes the length of an evidence set one more, leaves the
\* records it held unchanged and in place and puts e last; and no operation
\* of the evidence set or of the observer's state (Add, ComputeBelief,
\* RecordEvidence, RecomputeBeliefs, Receive, queries) removes, reorders or
\* rewrites a stored record.
IsPrefix(a, b) == Len(a) <= Len(b) /\ SubSeq(b, 1, Len(a)) = a
Appended(before, after, e) ==
    /\ Len(after) = Len(before) + 1
    /\ SubSeq(after, 1, Len(before)) = before
    /\ after[Len(after)] = e
EvidenceMonotonic ==
    [][\A t \in Threads :
          LET c == calls[t]
              d == calls'[t]
          IN  /\ "os" \in DOMAIN c /\ "os" \in DOMAIN d =>
                    \A id \in Targets : IsPrefix(Recorded(c.os, id), Recorded(d.os, id))
              /\ "evidence" \in DOMAIN c /\ "evidence" \in DOMAIN d =>
                    IsPrefix(c.evidence, d.evidence)
              /\ Returns(t, "RecordEvidence") =>
                    /\ Appended(Recorded(c.os, c.target), Recorded(d.os, c.target), c.e)
                    /\ \A id \in Targets \ {c.target} : Recorded(d.os, id) = Recorded(c.os, id)
              /\ Returns(t, "Add") => Appended(c.evidence, d.evidence, c.e)
              /\ Returns(t, "ComputeBelief") => d.evidence = c.evidence
              /\ \E op \in {"ObserverQuery", "RecomputeBeliefs", "Receive"} : Returns(t, op) =>
                    \A id \in Targets : Recorded(d.os, id) = Recorded(c.os, id)]_vars
EvidenceMonotonicWitness ==
    /\ In("t1", "done", "RecomputeBeliefs")
    /\ Recorded(calls["t1"].os, Target) = <<EvidenceChoices[3], EvidenceChoices[1]>>
    /\ Len(Recorded(calls["t1"].os, Rebirth(Target))) = 1
    /\ calls["t1"].os.logicalClock = 250
    /\ In("t2", "done", "Add")
    /\ calls["t2"].evidence = <<EvidenceChoices[3], EvidenceChoices[1]>>


\* C33: for every node id n, n.Rebirth() has the base of n and the generation
\* of n plus one, is not Equal to n and IsRebirthOf(n); two ids with the same
\* base and different generations are never Equal, and the one with the
\* higher generation IsRebirthOf the other.
RestartNotResurrection ==
    [][\A t \in Threads :
          /\ Returns(t, "Rebirth") =>
                LET n == calls[t].n
                    r == calls'[t].res
                IN  /\ r.Base = n.Base
                    /\ r.Generation = n.Generation + 1
                    /\ ~Equal(r, n)
                    /\ IsRebirthOf(r, n)
          /\ Returns(t, "Compare") =>
                LET n == calls[t].n
                    other == calls[t].other
                IN  n.Base = other.Base /\ n.Generation # other.Generation =>
                       /\ ~calls'[t].res.Equal
                       /\ calls'[t].res.IsRebirthOf = (n.Generation > other.Generation)]_vars
RebirthWrapsAround ==
    \E t \in Threads :
        /\ In(t, "done", "Rebirth")
        /\ calls[t].n = WithGeneration(99, MaxGeneration)
        /\ calls[t].res = NewNodeID(99)
        /\ ~IsRebirthOf(calls[t].res, calls[t].n)


\* C34: after any sequence of Increment and Update calls, the result of each
\* call is strictly greater than the local timestamp before the call, and
\* Update(received) returns max(local, received) + 1, which is strictly
\* greater than received as well.
LogicalTimeMonotonic ==
    [][\A t \in Threads :
          /\ Returns(t, "Increment") => calls'[t].res > calls[t].local
          /\ Returns(t, "Update") =>
                LET local == calls[t].local
                    received == calls[t].received
                IN  /\ calls'[t].res > local
                    /\ calls'[t].res = (IF local > received THEN local ELSE received) + 1
                    /\ calls'[t].res > received]_vars
LogicalTimeWrapsAround ==
    \E t \in Threads :
        /\ In(t, "done", "Update")
        /\ calls[t].before = 5
        /\ calls[t].received = MaxTimestamp
        /\ calls[t].res = 0


\* C35: for every list of two or more valid reports, the values that
\* Aggregate hands to NewBelief after the unknown-floor adjustment are each
\* between 0 and 1 and sum to 1, so NewBelief does not fail and the fall-back
\* to UnknownBelief is never taken.
ReconstructionNeverFails ==
    [][\A t \in Threads :
          Returns(t, "Aggregate") /\ Len(calls[t].reports) >= 2 =>
             LET m == aggregateMasses(calls[t].reports, witnesses)
             IN  /\ BeliefSums(BeliefOf(m.alive, m.dead, m.unknown))
                 /\ NewBelief(m.alive, m.dead, m.unknown) # ErrInvalidBelief]_vars
ReconstructionFails ==
    \E t \in Threads :
        /\ In(t, "done", "Aggregate")
        /\ Len(calls[t].reports) = 2
        /\ calls[t].reports[1].Belief = CertainlyAlive
        /\ calls[t].reports[2].Belief = StrongAlive
        /\ GetTrust(witnesses, Witness(1)) = MaxTrust
        /\ GetTrust(witnesses, Witness(2)) = MinTrust
        /\ aggregateMasses(calls[t].reports, witnesses).dead < 0
        /\ calls[t].res.Belief = UnknownBelief

\* C36 (as stated): GetLastSplit returns the split returned by the most
\* recent Analyze call, none when that call did not return
\* ConfirmedPartition.
LastSplitOfLatestAnalysis ==
    [][\A t, u \in Threads :
          /\ In(t, "call", "GetLastSplit") /\ calls'[t].pc = "done"
          /\ In(u, "done", "Analyze")
          => calls'[t].res.split = calls[u].res.split]_vars

\* C36 (amended): GetState returns the state the most recent Analyze call
\* returned and ShouldRefuseAnswer is true exactly when that state is
\* ConfirmedPartition; GetLastSplit returns the split of the most recent
\* Analyze call that returned ConfirmedPartition (none if there was none): an
\* analysis that is not confirmed leaves the stored split as it was.
LastSplitOfLatestDetected ==
    [][\A t, u \in Threads :
          /\ Returns(t, "Analyze") =>
                /\ state' = calls'[t].res.state
                /\ lastSplit' = IF calls'[t].res.state = ConfirmedPartition
                                THEN calls'[t].res.split ELSE lastSplit
                /\ calls'[t].res.state # ConfirmedPartition =>
                      calls'[t].res.split = NilRecord
          /\ (In(u, "done", "Analyze") /\ Returns(t, "GetState")) =>
                calls'[t].res.state = calls[u].res.state
          /\ (In(u, "done", "Analyze") /\ Returns(t, "ShouldRefuseAnswer")) =>
                (calls'[t].res.refuse <=> calls[u].res.state = ConfirmedPartition)
          /\ Returns(t, "GetLastSplit") => calls'[t].res.split = lastSplit
          /\ (Returns(t, "GetLastSplit") \/ Returns(t, "GetState")
                \/ Returns(t, "ShouldRefuseAnswer")) =>
                UNCHANGED <<state, lastSplit>>]_vars

\* The most recent analysis was not confirmed, and GetLastSplit returned the
\* split of an earlier one.
StaleSplitRead ==
    \E t, u \in Threads :
        /\ In(u, "done", "Analyze")
        /\ calls[u].res.state # ConfirmedPartition
        /\ calls[u].res.split = NilRecord
        /\ In(t, "done", "GetLastSplit")
        /\ calls[t].res.split # NilRecord
        /\ calls[t].res.split = lastSplit

QueryIsolation ==
    [][\A t \in Threads :
          /\ (In(t, "call", "QueryWithRequirement") /\ calls'[t].pc = "done") =>
                /\ IsDead(dead, calls[t].target)
                /\ calls'[t].res = QueryDead(calls[t].target)
          /\ (In(t, "call", "QueryWithRequirement") /\ calls'[t].pc = "querying") =>
                ~IsDead(dead, calls[t].target)
          /\ (In(t, "querying", "QueryWithRequirement") /\ calls'[t].pc = "done") =>
                calls'[t].res =
                   QueryReports(calls[t].target, calls[t].req,
                                reports[calls[t].target],
                                Analyze(reports[calls[t].target], calls[t].target),
                                witnesses)]_vars

\* A query about the target was refused for a confirmed partition although a
\* query about the target's rebirth, analyzed after it, had left the shared
\* detector without a partition.
QueryIsolationWitness ==
    /\ In("t1", "done", "QueryWithRequirement")
    /\ calls["t1"].id = Target
    /\ calls["t1"].res.Refused
    /\ calls["t1"].res.PartitionState = ConfirmedPartition
    /\ In("t2", "done", "QueryWithRequirement")
    /\ calls["t2"].id = Rebirth(Target)
    /\ calls["t2"].res.PartitionState = NoPartition
    /\ calls["t2"].res.WitnessCount = 1
    /\ state = NoPartition
    /\ lastSplit # NilRecord

\* C39: every JitterStats and every Stats call returns, whatever RecordSample
\* and AddSample calls run beside it: no thread stays inside a tracker call
\* for ever.
TrackerStatsTerminate ==
    \A t \in Threads : []<>(calls[t].pc \in {"idle", "done"})

\* JitterStats holds jt.mu for reading and is about to take it again in
\* GetJitterFactor, while RecordSample has announced itself as a writer and
\* waits for the reader to leave: neither can take a step.
TrackerStatsBlocked ==
    /\ calls["t1"].pc = "summed" /\ calls["t1"].op = "JitterStats"
    /\ calls["t2"].pc = "waiting" /\ calls["t2"].op = "RecordSample"
    /\ ~ENABLED TrackerProceed("t1")
    /\ ~ENABLED TrackerProceed("t2")

\* C40: a DeclareDeath(id) call changes the dead map at key id alone, and the
\* record under a key carries that key; a node id that is not in the map,
\* the rebirth of a dead node included, is not dead: reports about it are
\* appended, a query about it passes the finality check and answers from its
\* reports, and a sound declaration of its own death is accepted.
FinalityPerIdentity ==
    [][\A t \in Threads :
          /\ Returns(t, "DeclareDeath") =>
                /\ \A k \in (DOMAIN dead \cup DOMAIN dead') \ {calls[t].nodeID} :
                      k \in DOMAIN dead /\ k \in DOMAIN dead' /\ dead'[k] = dead[k]
                /\ calls'[t].res = Nil =>
                      /\ calls[t].nodeID \in DOMAIN dead'
                      /\ dead'[calls[t].nodeID].NodeID = calls[t].nodeID
          /\ (Returns(t, "IsDead") /\ calls[t].id \notin DOMAIN dead) =>
                calls'[t].res = FALSE
          /\ (In(t, "call", "QueryWithRequirement") /\ calls'[t] # calls[t]
                /\ calls[t].target \notin DOMAIN dead) =>
                calls'[t].pc = "querying"
          /\ (Returns(t, "QueryWithRequirement") /\ calls[t].pc = "querying") =>
                /\ ~calls'[t].res.Dead
                /\ calls'[t].res.WitnessCount = Len(reports[calls[t].target])
          /\ (In(t, "locked", "DeclareDeath") /\ calls'[t] # calls[t]
                /\ calls[t].nodeID \notin DOMAIN dead
                /\ PreconditionsMet(calls[t])) =>
                calls'[t].err = Nil]_vars

\* The target was declared dead, and the feeder's last call then declared
\* its rebirth dead in its own right; before that, a query about the rebirth,
\* which had a report, was answered as not dead.
FinalityPerIdentityWitness ==
    /\ Target \in DOMAIN dead
    /\ In("t1", "done", "DeclareDeath")
    /\ calls["t1"].id = Rebirth(Target)
    /\ calls["t1"].res = Nil
    /\ dead[Rebirth(Target)].NodeID = Rebirth(Target)
    /\ Len(reports[Rebirth(Target)]) >= 1
    /\ In("t2", "done", "QueryWithRequirement")
    /\ calls["t2"].id = Rebirth(Target)
    /\ ~calls["t2"].res.Dead
    /\ calls["t2"].res.WitnessCount >= 1

====
